---- MODULE Spec2Model ----
(***************************************************************************)
(* MindfulPages: the journal-entry pipeline, the statistics recomputation  *)
(* of DatabaseStorage.updateUserStats, and the weekly-insight aggregator,  *)
(* as a state machine over the rows of journal_entries, users and          *)
(* weekly_insights.                                                        *)
(***************************************************************************)
EXTENDS Integers, Sequences, FiniteSets, TLC

VARIABLES
    now,        \* the wall clock, in ticks (MsPerDay ticks make one day)
    entries,    \* the rows of journal_entries
    users,      \* userId -> the aggregate columns of the users row
    insights,   \* the rows of weekly_insights
    nextId,     \* the next value gen_random_uuid() hands out
    lastOp,     \* the last request handled and what it answered
    procs       \* the in-flight entry submissions (SpecRace only)

vars == <<now, entries, users, insights, nextId, lastOp, procs>>

-----------------------------------------------------------------------------
(* Bounds of the model *)

\* rows of journal_entries the request handlers may create
MaxEntries == 2
\* rows of journal_entries in a history handed to updateUserStats (SpecStats)
MaxHist == 3
\* the last calendar day the clock reaches
MaxDay == 7
\* the calendar day the server starts on (day 0 is a Sunday)
StartDay == 6
\* rows of weekly_insights the request handlers may create
MaxInsights == 2
\* the calendar day on which SpecStats recomputes
StatsDay == 3

-----------------------------------------------------------------------------
(* Values *)

\* one day, (1000 * 60 * 60 * 24) ms in the source, scaled to ticks
MsPerDay == 2

\* getDay() counts the days of a week from Sunday = 0
DaysPerWeek == 7

\* a column that holds NULL / a property that is undefined
Null == <<>>

Some(v) == <<v>>

Users == {"u1", "u2"}

RECURSIVE SumSeq(_)
SumSeq(s) == IF s = <<>> THEN 0 ELSE Head(s) + SumSeq(Tail(s))

Max(a, b) == IF a > b THEN a ELSE b

Min(a, b) == IF a < b THEN a ELSE b

\* every arrangement of the finite set S as a sequence
Perms(S) ==
    { f \in [1..Cardinality(S) -> S] : \A i, j \in 1..Cardinality(S) : f[i] = f[j] => i = j }

-----------------------------------------------------------------------------
(* Text: a string is the sequence of its characters *)

\* the empty string
EmptyText ==
    <<>>

\* " Bad  day ": 2 words
ShortText ==
    <<" ","B","a","d"," "," ","d","a","y"," ">>

\* "a b c d e f g h i j": 10 words
TenText ==
    <<"a"," ","b"," ","c"," ","d"," ","e"," ","f"," ","g"," ","h"," ","i"," ","j">>

\* "Happy joy a b c d e f g h i": 11 words, two positive keywords
LongText ==
    <<"H","a","p","p","y"," ","j","o","y"," ","a"," ","b"," ","c"," ","d"," ","e"," ","f"," ","g"," ","h"," ","i">>

\* "sad okay a b c d e f g h i j": 12 words, one negative and one neutral keyword
LongText2 ==
    <<"s","a","d"," ","o","k","a","y"," ","a"," ","b"," ","c"," ","d"," ","e"," ","f"," ","g"," ","h"," ","i"," ","j">>

positiveWords ==
    << <<"h","a","p","p","y">>,
       <<"e","x","c","i","t","e","d">>,
       <<"g","o","o","d">>,
       <<"g","r","e","a","t">>,
       <<"a","m","a","z","i","n","g">>,
       <<"w","o","n","d","e","r","f","u","l">>,
       <<"l","o","v","e">>,
       <<"j","o","y">>,
       <<"g","r","a","t","e","f","u","l">>,
       <<"b","l","e","s","s","e","d">>,
       <<"a","w","e","s","o","m","e">>,
       <<"f","a","n","t","a","s","t","i","c">>,
       <<"p","l","e","a","s","e","d">>,
       <<"d","e","l","i","g","h","t","e","d">>,
       <<"o","p","t","i","m","i","s","t","i","c">> >>

negativeWords ==
    << <<"s","a","d">>,
       <<"a","n","g","r","y">>,
       <<"f","r","u","s","t","r","a","t","e","d">>,
       <<"u","p","s","e","t">>,
       <<"d","i","s","a","p","p","o","i","n","t","e","d">>,
       <<"w","o","r","r","i","e","d">>,
       <<"a","n","x","i","o","u","s">>,
       <<"s","t","r","e","s","s","e","d">>,
       <<"t","e","r","r","i","b","l","e">>,
       <<"a","w","f","u","l">>,
       <<"h","a","t","e">>,
       <<"d","e","p","r","e","s","s","e","d">>,
       <<"a","n","n","o","y","e","d">>,
       <<"i","r","r","i","t","a","t","e","d">>,
       <<"o","v","e","r","w","h","e","l","m","e","d">> >>

neutralWords ==
    << <<"o","k","a","y">>,
       <<"f","i","n","e">>,
       <<"n","o","r","m","a","l">>,
       <<"r","e","g","u","l","a","r">>,
       <<"u","s","u","a","l">>,
       <<"a","v","e","r","a","g","e">> >>

LowerOf ==
    [c \in {"A","B","C","D","E","F","G","H","I","J","K","L","M","N","O","P","Q","R","S","T","U","V","W","X","Y","Z"} |->
        CASE c = "A" -> "a"
          [] c = "B" -> "b"
          [] c = "C" -> "c"
          [] c = "D" -> "d"
          [] c = "E" -> "e"
          [] c = "F" -> "f"
          [] c = "G" -> "g"
          [] c = "H" -> "h"
          [] c = "I" -> "i"
          [] c = "J" -> "j"
          [] c = "K" -> "k"
          [] c = "L" -> "l"
          [] c = "M" -> "m"
          [] c = "N" -> "n"
          [] c = "O" -> "o"
          [] c = "P" -> "p"
          [] c = "Q" -> "q"
          [] c = "R" -> "r"
          [] c = "S" -> "s"
          [] c = "T" -> "t"
          [] c = "U" -> "u"
          [] c = "V" -> "v"
          [] c = "W" -> "w"
          [] c = "X" -> "x"
          [] c = "Y" -> "y"
          [] c = "Z" -> "z"]

IsSpace(c) == c \in {" ", "\t", "\n"}

\* String.prototype.toLowerCase
toLowerCase(s) ==
    [i \in 1..Len(s) |-> IF s[i] \in DOMAIN LowerOf THEN LowerOf[s[i]] ELSE s[i]]

RECURSIVE trimStart(_)
trimStart(s) ==
    IF s # <<>> /\ IsSpace(Head(s)) THEN trimStart(Tail(s)) ELSE s

RECURSIVE trimEnd(_)
trimEnd(s) ==
    IF s # <<>> /\ IsSpace(s[Len(s)]) THEN trimEnd(SubSeq(s, 1, Len(s) - 1)) ELSE s

\* String.prototype.trim
trim(s) == trimEnd(trimStart(s))

\* s.split(/\s+/), scanning from character i: cur is the token being read,
\* inGap says the previous character was white space
RECURSIVE splitFrom(_, _, _, _)
splitFrom(s, i, cur, inGap) ==
    IF i > Len(s) THEN <<cur>>
    ELSE IF IsSpace(s[i])
         THEN IF inGap THEN splitFrom(s, i + 1, cur, TRUE)
              ELSE <<cur>> \o splitFrom(s, i + 1, <<>>, TRUE)
         ELSE splitFrom(s, i + 1, Append(cur, s[i]), FALSE)

split(s) == splitFrom(s, 1, <<>>, FALSE)

\* content.trim().split(/\s+/).filter(word => word.length > 0).length
countWords(content) ==
    Len(SelectSeq(split(trim(content)), LAMBDA word : Len(word) > 0))

\* String.prototype.includes
includes(text, word) ==
    \E i \in 0..(Len(text) - Len(word)) : SubSeq(text, i + 1, i + Len(word)) = word

\* every occurrence of every word of the lexicon counted, repeats included
keywordOccurrences(words, text) ==
    SumSeq([w \in 1..Len(words) |->
               Cardinality({ i \in 0..(Len(text) - Len(words[w])) :
                               SubSeq(text, i + 1, i + Len(words[w])) = words[w] })])

\* how many words of the lexicon occur in the text (each counted once)
keywordHits(words, text) ==
    Cardinality({ i \in 1..Len(words) : includes(text, words[i]) })

\* the classifier with the anxious rule tried before the negative rule
detectMoodAnxiousFirst(content) ==
    LET text == toLowerCase(content)
        positiveCount == keywordHits(positiveWords, text)
        negativeCount == keywordHits(negativeWords, text)
        neutralCount == keywordHits(neutralWords, text)
    IN  IF positiveCount > negativeCount /\ positiveCount > neutralCount THEN "positive"
        ELSE IF negativeCount > 0 /\ positiveCount = 0 THEN "anxious"
        ELSE IF negativeCount > positiveCount /\ negativeCount > neutralCount THEN "negative"
        ELSE IF positiveCount > 0 /\ negativeCount = 0 THEN "content"
        ELSE "neutral"

detectMoodFromKeywords(content) ==
    LET text == toLowerCase(content)
        positiveCount == keywordHits(positiveWords, text)
        negativeCount == keywordHits(negativeWords, text)
        neutralCount == keywordHits(neutralWords, text)
    IN  IF positiveCount > negativeCount /\ positiveCount > neutralCount THEN "positive"
        ELSE IF negativeCount > positiveCount /\ negativeCount > neutralCount THEN "negative"
        ELSE IF negativeCount > 0 /\ positiveCount = 0 THEN "anxious"
        ELSE IF positiveCount > 0 /\ negativeCount = 0 THEN "content"
        ELSE "neutral"

-----------------------------------------------------------------------------
(* Calendar *)

\* date.setHours(0, 0, 0, 0): the local midnight that starts the date's day
startOfDay(t) == t - (t % MsPerDay)

isToday(date, t) == date = startOfDay(t)

\* isYesterday that compares with today's midnight shifted the wrong way
isYesterdayWrongDay(date, t) == date = startOfDay(t) + MsPerDay

isYesterday(date, t) == date = startOfDay(t) - MsPerDay

-----------------------------------------------------------------------------
(* Statistics recomputation: DatabaseStorage.updateUserStats *)

\* the users row as the schema's column defaults leave it
NewUser ==
    [currentStreak |-> 0, longestStreak |-> 0, totalEntries |-> 0,
     wordsWritten |-> 0, lastEntryDate |-> Null]

entriesOf(rows, userId) == { e \in rows : e.userId = userId }

\* the arrays Array.prototype.sort may give for (a, b) => b.createdAt - a.createdAt:
\* rows of one createdAt keep the order the unordered select gave them
sortedByCreatedAtDesc(rows) ==
    { s \in Perms(rows) : \A i, j \in 1..Len(s) : i < j => s[i].createdAt >= s[j].createdAt }

\* reduce((sum, entry) => sum + (entry.wordCount || 0), 0) over every row
RECURSIVE sumWordCount(_)
sumWordCount(rows) ==
    IF rows = {} THEN 0
    ELSE LET e == CHOOSE x \in rows : TRUE
         IN  e.wordCount + sumWordCount(rows \ {e})

\* streakStep that keeps counting across a gap instead of starting a new run
streakStepNoReset(acc, entry, t) ==
    LET entryDate == startOfDay(entry.createdAt)
    IN  IF acc.lastDate = Null
        THEN [acc EXCEPT !.streakCount = 1,
                         !.currentStreak =
                             IF isToday(entryDate, t) \/ isYesterday(entryDate, t) THEN 1 ELSE @,
                         !.lastDate = Some(entryDate)]
        ELSE [acc EXCEPT !.streakCount = @ + 1,
                         !.lastDate = Some(entryDate)]

\* one pass of the for loop over completedEntries
streakStep(acc, entry, t) ==
    LET entryDate == startOfDay(entry.createdAt)
    IN  IF acc.lastDate = Null
        THEN [acc EXCEPT !.streakCount = 1,
                         !.currentStreak =
                             IF isToday(entryDate, t) \/ isYesterday(entryDate, t) THEN 1 ELSE @,
                         !.lastDate = Some(entryDate)]
        ELSE LET daysDiff == (acc.lastDate[1] - entryDate) \div MsPerDay
             IN  IF daysDiff = 1
                 THEN [acc EXCEPT !.streakCount = @ + 1,
                                  !.currentStreak =
                                      IF @ = 0 /\ (isToday(entryDate, t) \/ isYesterday(entryDate, t))
                                      THEN acc.streakCount + 1 ELSE @,
                                  !.lastDate = Some(entryDate)]
                 ELSE [acc EXCEPT !.longestStreak = Max(@, acc.streakCount),
                                  !.streakCount = 1,
                                  !.lastDate = Some(entryDate)]

RECURSIVE streakLoop(_, _, _, _)
streakLoop(acc, completedEntries, i, t) ==
    IF i > Len(completedEntries) THEN acc
    ELSE streakLoop(streakStep(acc, completedEntries[i], t), completedEntries, i + 1, t)

\* the loop's longestStreak without the final Math.max
finalLongestUnfolded(acc) == acc.longestStreak

\* longestStreak = Math.max(longestStreak, streakCount) after the loop
finalLongest(acc) == Max(acc.longestStreak, acc.streakCount)

\* wordsWritten reduced over the completed rows only
wordsWrittenCompletedOnly(rows) == sumWordCount({ e \in rows : e.isCompleted })

\* the total written to users.words_written
wordsWrittenOf(rows) == sumWordCount(rows)

\* the values updateUserStats writes, from the rows it selected, the sorted
\* array of the completed ones and the clock
statsOf(rows, completedEntries, t) ==
    LET acc == streakLoop([currentStreak |-> 0, longestStreak |-> 0,
                           streakCount |-> 0, lastDate |-> Null],
                          completedEntries, 1, t)
    IN  [totalEntries |-> Cardinality({ e \in rows : e.isCompleted }),
         wordsWritten |-> wordsWrittenOf(rows),
         currentStreak |-> acc.currentStreak,
         longestStreak |-> finalLongest(acc),
         lastEntryDate |-> IF completedEntries = <<>> THEN Null
                           ELSE Some(completedEntries[1].createdAt)]

\* every result updateUserStats may write for the stored rows at time t
statsResults(rows, userId, t) ==
    { statsOf(entriesOf(rows, userId), s, t) :
        s \in sortedByCreatedAtDesc({ e \in entriesOf(rows, userId) : e.isCompleted }) }

\* updateUserStats that patches the cached row: longestStreak never goes down
updateUserStatsKeepsLongest(rows, userId) ==
    \E st \in statsResults(rows, userId, now) :
        users' = [users EXCEPT ![userId] =
                     [st EXCEPT !.longestStreak = Max(@, users[userId].longestStreak)]]

\* updateUserStats(userId), run on the stored rows
updateUserStats(rows, userId) ==
    \E st \in statsResults(rows, userId, now) :
        users' = [users EXCEPT ![userId] = st]

-----------------------------------------------------------------------------
(* The AI analysis client (gemini.ts): what the provider may answer *)

\* the provider call threw, timed out, or its text did not parse
ProviderError ==
    [ok |-> FALSE, score |-> Null, confidence |-> Null, label |-> Null, mood |-> Null,
     themes |-> Null, insights |-> Null]

\* parsed answers to the sentiment instruction; numbers are in hundredths
HappyReply ==
    [ok |-> TRUE, score |-> Some(250), confidence |-> Some(150), label |-> Some("positive"),
     mood |-> Some("happy"), themes |-> Null, insights |-> Null]

SadReply ==
    [ok |-> TRUE, score |-> Some(-40), confidence |-> Some(50), label |-> Some("negative"),
     mood |-> Some("sad"), themes |-> Null, insights |-> Null]

SentimentReplies == {HappyReply, SadReply}

\* parsed answers to the theme instruction
ThemeReplies ==
    { [ok |-> TRUE, score |-> Null, confidence |-> Null, label |-> Null, mood |-> Null,
       themes |-> Some(<<"work", "family", "health">>), insights |-> Null] }

\* parsed answers to the weekly-insight instruction
InsightReplies ==
    { [ok |-> TRUE, score |-> Null, confidence |-> Null, label |-> Null, mood |-> Null,
       themes |-> Some(<<"growth">>), insights |-> Some("ai summary")] }

\* x || d for a property that is missing (undefined)
orElse(x, d) == IF x = Null THEN d ELSE x[1]

\* x || d for a number: 0 is falsy too
numOrElse(x, d) == IF x = Null \/ x = Some(0) THEN d ELSE x[1]

\* analyzeSentiment's return value for a parsed answer (numbers in hundredths)
sentimentResult(reply) ==
    [score |-> Max(-100, Min(100, numOrElse(reply.score, 0))),
     label |-> orElse(reply.label, "neutral"),
     mood |-> orElse(reply.mood, "neutral"),
     confidence |-> Max(0, Min(100, numOrElse(reply.confidence, 50)))]

-----------------------------------------------------------------------------
(* Storage: journal_entries *)

\* getJournalEntry(id): the row, or Null
getJournalEntry(id) ==
    IF \E e \in entries : e.id = id THEN Some(CHOOSE e \in entries : e.id = id) ELSE Null

\* getUserJournalEntries(userId, limit): the results the query may give, completed
\* rows newest first, cut to limit
getUserJournalEntries(userId, limit) ==
    { SubSeq(s, 1, Min(limit, Len(s))) :
        s \in sortedByCreatedAtDesc({ e \in entriesOf(entries, userId) : e.isCompleted }) }

\* the row db.insert(journalEntries).values(entry) stores: id and createdAt are
\* the column defaults gen_random_uuid() and now()
entryRow(id, entryData, createdAt) ==
    [id |-> id, userId |-> entryData.userId, content |-> entryData.content,
     wordCount |-> entryData.wordCount, sentimentScore |-> entryData.sentimentScore,
     sentimentLabel |-> entryData.sentimentLabel, mood |-> entryData.mood,
     themes |-> entryData.themes, isCompleted |-> entryData.isCompleted,
     createdAt |-> createdAt]

\* db.insert(journalEntries).values(entry).returning()
insertJournalEntry(entryData) ==
    /\ entries' = entries \cup {entryRow(nextId.entry, entryData, now)}
    /\ nextId' = [nextId EXCEPT !.entry = @ + 1]

\* createJournalEntry whose recomputation reads the rows as they were before the
\* insert landed (the insert not awaited)
createJournalEntryUnawaited(entryData) ==
    /\ insertJournalEntry(entryData)
    /\ updateUserStats(entries, entryData.userId)

\* createJournalEntry(entry): insert, then updateUserStats(entry.userId)
createJournalEntry(entryData) ==
    /\ insertJournalEntry(entryData)
    /\ updateUserStats(entries', entryData.userId)

\* deleteJournalEntry(id)
deleteJournalEntry(id) ==
    entries' = { e \in entries : e.id # id }

-----------------------------------------------------------------------------
(* Entry pipeline: POST /api/journal-entries *)

\* insertJournalEntrySchema.parse({...req.body, userId}) with the word count set
parsedEntry(userId, content, isCompleted) ==
    [userId |-> userId, content |-> content, wordCount |-> countWords(content),
     sentimentScore |-> Null, sentimentLabel |-> Null, mood |-> Null, themes |-> Null,
     isCompleted |-> isCompleted]

\* the catch block of the analysis: keyword mood, score "0", no themes
fallbackEnriched(entryData) ==
    LET mood == detectMoodFromKeywords(entryData.content)
    IN  [entryData EXCEPT !.mood = Some(mood), !.sentimentScore = Some(0),
                          !.sentimentLabel = Some(mood), !.themes = Some(<<>>)]

\* the try block of the analysis when both provider calls answer
aiEnriched(entryData, sentimentReply, themesReply) ==
    LET sentiment == sentimentResult(sentimentReply)
    IN  [entryData EXCEPT !.sentimentScore = Some(sentiment.score),
                          !.sentimentLabel = Some(sentiment.label),
                          !.mood = Some(sentiment.mood),
                          !.themes = Some(orElse(themesReply.themes, <<>>))]

\* is the content substantial enough to analyse: wordCount > 10
isSubstantial(wordCount) == wordCount > 10

\* enrichedEntry whose catch block keeps the sentiment already obtained when
\* only the theme extraction fails
enrichedEntryKeepsSentiment(userId, content, isCompleted, sentimentReply, themesReply) ==
    LET entryData == parsedEntry(userId, content, isCompleted)
    IN  IF ~isSubstantial(entryData.wordCount) THEN entryData
        ELSE IF sentimentReply.ok
             THEN aiEnriched(entryData, sentimentReply, themesReply)
             ELSE fallbackEnriched(entryData)

\* lines 274-305: the entry data handed to storage
enrichedEntry(userId, content, isCompleted, sentimentReply, themesReply) ==
    LET entryData == parsedEntry(userId, content, isCompleted)
    IN  IF ~isSubstantial(entryData.wordCount) THEN entryData
        ELSE IF sentimentReply.ok /\ themesReply.ok
             THEN aiEnriched(entryData, sentimentReply, themesReply)
             ELSE fallbackEnriched(entryData)

\* the provider calls the POST handler makes
postCalls(userId, content, sentimentReply) ==
    IF ~isSubstantial(countWords(content)) THEN <<>>
    ELSE IF ~sentimentReply.ok THEN <<"analyzeSentiment">>
    ELSE <<"analyzeSentiment", "extractThemes">>

\* PostEntry without the inner try/catch: a provider failure reaches the
\* handler's outer catch, which answers 500 and stores nothing
PostEntryUncaught(userId, content, isCompleted, sentimentReply, themesReply) ==
    /\ nextId.entry <= MaxEntries
    /\ IF isSubstantial(countWords(content)) /\ ~(sentimentReply.ok /\ themesReply.ok)
       THEN /\ lastOp' = [op |-> "POST", userId |-> userId, status |-> 500, id |-> Null,
                          calls |-> postCalls(userId, content, sentimentReply)]
            /\ UNCHANGED <<entries, users, nextId>>
       ELSE /\ createJournalEntry(enrichedEntry(userId, content, isCompleted,
                                                sentimentReply, themesReply))
            /\ lastOp' = [op |-> "POST", userId |-> userId, status |-> 200,
                          id |-> Some(nextId.entry),
                          calls |-> postCalls(userId, content, sentimentReply)]
    /\ UNCHANGED <<now, insights, procs>>

PostEntry(userId, content, isCompleted, sentimentReply, themesReply) ==
    /\ nextId.entry <= MaxEntries
    /\ createJournalEntry(enrichedEntry(userId, content, isCompleted, sentimentReply, themesReply))
    /\ lastOp' = [op |-> "POST", userId |-> userId, status |-> 200, id |-> Some(nextId.entry),
                  calls |-> postCalls(userId, content, sentimentReply)]
    /\ UNCHANGED <<now, insights, procs>>

-----------------------------------------------------------------------------
(* Entry pipeline: PATCH and DELETE /api/journal-entries/:id *)

\* an update leaves a column alone (Null) or sets it (Some(value))
setOr(update, old) == IF update = Null THEN old ELSE update[1]

\* db.update(journalEntries).set({...entry}).where(id = id)
updatedRow(row, updateData) ==
    [row EXCEPT !.content = setOr(updateData.content, @),
                !.wordCount = setOr(updateData.wordCount, @),
                !.sentimentScore = setOr(updateData.sentimentScore, @),
                !.sentimentLabel = setOr(updateData.sentimentLabel, @),
                !.mood = setOr(updateData.mood, @),
                !.isCompleted = setOr(updateData.isCompleted, @),
                !.userId = setOr(updateData.userId, @),
                !.themes = setOr(updateData.themes, @)]

\* updateJournalEntry(id, entry): update, then updateUserStats(row.userId)
updateJournalEntry(id, updateData) ==
    /\ entries' = { IF e.id = id THEN updatedRow(e, updateData) ELSE e : e \in entries }
    /\ IF \E e \in entries : e.id = id
       THEN updateUserStats(entries', (CHOOSE e \in entries' : e.id = id).userId)
       ELSE UNCHANGED users

\* if (updateData.content): the body has a non-empty content
hasContent(bodyContent) == bodyContent # Null /\ bodyContent[1] # <<>>

\* wordCount > 10 && updateData.content !== existingEntry.content
needsReanalysis(bodyContent, existingEntry) ==
    /\ hasContent(bodyContent)
    /\ isSubstantial(countWords(bodyContent[1]))
    /\ bodyContent[1] # existingEntry.content

\* lines 370-384: req.body with the recalculated columns added
patchData(bodyContent, bodyCompleted, existingEntry, sentimentReply) ==
    LET sentiment == sentimentResult(sentimentReply)
        reanalyse == needsReanalysis(bodyContent, existingEntry)
    IN  [content |-> bodyContent,
         isCompleted |-> bodyCompleted,
         wordCount |-> IF hasContent(bodyContent) THEN Some(countWords(bodyContent[1])) ELSE Null,
         sentimentScore |-> IF reanalyse THEN Some(Some(sentiment.score)) ELSE Null,
         sentimentLabel |-> IF reanalyse THEN Some(Some(sentiment.label)) ELSE Null,
         mood |-> IF reanalyse THEN Some(Some(sentiment.mood)) ELSE Null,
         userId |-> Null,
         themes |-> Null]

\* ownedBy that only checks that the entry is there
ownedByAnyone(existing, userId) == existing # Null

\* is the named entry there and owned by the caller
ownedBy(existing, userId) == existing # Null /\ existing[1].userId = userId

PatchEntry(userId, entryId, bodyContent, bodyCompleted, sentimentReply) ==
    LET existing == getJournalEntry(entryId)
    IN  /\ IF ~ownedBy(existing, userId)
           THEN /\ lastOp' = [op |-> "PATCH", userId |-> userId, status |-> 404,
                              id |-> Some(entryId), calls |-> <<>>]
                /\ UNCHANGED <<entries, users>>
           ELSE IF needsReanalysis(bodyContent, existing[1]) /\ ~sentimentReply.ok
           THEN \* analyzeSentiment throws: the handler's outer catch answers 500
                /\ lastOp' = [op |-> "PATCH", userId |-> userId, status |-> 500,
                              id |-> Some(entryId), calls |-> <<"analyzeSentiment">>]
                /\ UNCHANGED <<entries, users>>
           ELSE /\ updateJournalEntry(entryId,
                       patchData(bodyContent, bodyCompleted, existing[1], sentimentReply))
                /\ lastOp' = [op |-> "PATCH", userId |-> userId, status |-> 200,
                              id |-> Some(entryId),
                              calls |-> IF needsReanalysis(bodyContent, existing[1])
                                        THEN <<"analyzeSentiment">> ELSE <<>>]
        /\ UNCHANGED <<now, insights, nextId, procs>>

\* lines 370-384 for a body that carries other columns too: req.body is not
\* validated, so a column the handler does not recalculate keeps the body's value
rawPatchData(body, existingEntry, sentimentReply) ==
    LET data == patchData(body.content, body.isCompleted, existingEntry, sentimentReply)
    IN  [data EXCEPT !.mood = IF @ = Null THEN body.mood ELSE @,
                     !.userId = body.userId]

\* PATCH /api/journal-entries/:id with any request body
PatchRaw(userId, entryId, body, sentimentReply) ==
    LET existing == getJournalEntry(entryId)
    IN  /\ IF ~ownedBy(existing, userId)
           THEN /\ lastOp' = [op |-> "PATCH", userId |-> userId, status |-> 404,
                              id |-> Some(entryId), calls |-> <<>>]
                /\ UNCHANGED <<entries, users>>
           ELSE IF needsReanalysis(body.content, existing[1]) /\ ~sentimentReply.ok
           THEN /\ lastOp' = [op |-> "PATCH", userId |-> userId, status |-> 500,
                              id |-> Some(entryId), calls |-> <<"analyzeSentiment">>]
                /\ UNCHANGED <<entries, users>>
           ELSE /\ updateJournalEntry(entryId,
                       rawPatchData(body, existing[1], sentimentReply))
                /\ lastOp' = [op |-> "PATCH", userId |-> userId, status |-> 200,
                              id |-> Some(entryId),
                              calls |-> IF needsReanalysis(body.content, existing[1])
                                        THEN <<"analyzeSentiment">> ELSE <<>>]
        /\ UNCHANGED <<now, insights, nextId, procs>>

DeleteEntry(userId, entryId) ==
    LET existing == getJournalEntry(entryId)
    IN  /\ IF ~ownedBy(existing, userId)
           THEN /\ lastOp' = [op |-> "DELETE", userId |-> userId, status |-> 404,
                              id |-> Some(entryId), calls |-> <<>>]
                /\ UNCHANGED entries
           ELSE /\ deleteJournalEntry(entryId)
                /\ lastOp' = [op |-> "DELETE", userId |-> userId, status |-> 200,
                              id |-> Some(entryId), calls |-> <<>>]
        /\ UNCHANGED <<now, users, insights, nextId, procs>>

\* GET /api/journal-entries/:id for an id that is not all digits
ReadEntry(userId, entryId) ==
    /\ lastOp' = [op |-> "GET entry", userId |-> userId,
                  status |-> IF ownedBy(getJournalEntry(entryId), userId) THEN 200 ELSE 404,
                  id |-> Some(entryId), calls |-> <<>>]
    /\ UNCHANGED <<now, entries, users, insights, nextId, procs>>

-----------------------------------------------------------------------------
(* Weekly insight aggregator: GET /api/insights/weekly *)

\* Date.prototype.getDay: the day of the week, Sunday = 0
getDay(t) == (t \div MsPerDay) % DaysPerWeek

\* setDate(getDate() - getDay()); setHours(0, 0, 0, 0)
weekStartOf(t) == startOfDay(t) - getDay(t) * MsPerDay

\* setDate(getDate() + 6); setHours(23, 59, 59, 999): the last tick of the week
weekEndOf(weekStart) == weekStart + 6 * MsPerDay + (MsPerDay - 1)

\* getWeeklyInsight(userId, weekStart): the first row of the select, or Null
getWeeklyInsight(userId, weekStart) ==
    LET found == { i \in insights : i.userId = userId /\ i.weekStart = weekStart }
    IN  IF found = {} THEN {Null} ELSE { Some(i) : i \in found }

\* getJournalEntriesByDateRange that leaves the range out of the where clause
getJournalEntriesAnyDate(userId, startDate, endDate) ==
    sortedByCreatedAtDesc(entriesOf(entries, userId))

\* getJournalEntriesByDateRange(userId, startDate, endDate): the arrays the query may give
getJournalEntriesByDateRange(userId, startDate, endDate) ==
    sortedByCreatedAtDesc({ e \in entriesOf(entries, userId) :
                              e.createdAt >= startDate /\ e.createdAt <= endDate })

\* a delete that matches no row
deleteWeeklyInsightNoop(rows, insightId) == rows

\* deleteWeeklyInsight(insightId), on the rows of weekly_insights
deleteWeeklyInsight(rows, insightId) == { i \in rows : i.id # insightId }

\* entry.mood || 'neutral'
moodOf(entry) == orElse(entry.mood, "neutral")

\* moodCounts[mood] after the reduce over completedEntries
moodCount(completedEntries, mood) ==
    Cardinality({ i \in 1..Len(completedEntries) : moodOf(completedEntries[i]) = mood })

\* Object.keys(moodCounts): the moods in the order they were first inserted
RECURSIVE moodKeys(_, _)
moodKeys(completedEntries, i) ==
    IF i > Len(completedEntries) THEN <<>>
    ELSE LET rest == moodKeys(completedEntries, i + 1)
             m == moodOf(completedEntries[i])
         IN  <<m>> \o SelectSeq(rest, LAMBDA k : k # m)

\* keys.reduce((a, b) => moodCounts[a] > moodCounts[b] ? a : b) from key i on
RECURSIVE reduceMood(_, _, _, _)
reduceMood(a, keys, i, completedEntries) ==
    IF i > Len(keys) THEN a
    ELSE reduceMood(IF moodCount(completedEntries, a) > moodCount(completedEntries, keys[i])
                    THEN a ELSE keys[i],
                    keys, i + 1, completedEntries)

\* dominantMood that keeps the first key whatever the counts
dominantMoodFirstKey(completedEntries) == moodKeys(completedEntries, 1)[1]

dominantMood(completedEntries) ==
    LET keys == moodKeys(completedEntries, 1)
    IN  reduceMood(keys[1], keys, 2, completedEntries)

\* a / n rounded to the nearest integer, halves away from zero: what the
\* decimal(3,2) column keeps of the quotient (a is in hundredths)
roundDiv(a, n) ==
    IF a >= 0 THEN (2 * a + n) \div (2 * n) ELSE 0 - ((2 * (0 - a) + n) \div (2 * n))

\* the mean of parseFloat(entry.sentimentScore || '0'), in hundredths
averageSentiment(completedEntries) ==
    roundDiv(SumSeq([i \in 1..Len(completedEntries) |->
                        orElse(completedEntries[i].sentimentScore, 0)]),
             Len(completedEntries))

\* the row created on the provider path
aiInsight(userId, weekStart, completedEntries, insightReply) ==
    [id |-> nextId.insight, userId |-> userId, weekStart |-> weekStart,
     weekEnd |-> weekEndOf(weekStart),
     summary |-> orElse(insightReply.insights, "Your journaling journey is developing beautifully."),
     keyThemes |-> orElse(insightReply.themes, <<>>),
     moodTrend |-> dominantMood(completedEntries),
     averageSentiment |-> averageSentiment(completedEntries),
     entryCount |-> Len(completedEntries)]

\* the row created in the catch block
fallbackInsight(userId, weekStart, completedEntries) ==
    [id |-> nextId.insight, userId |-> userId, weekStart |-> weekStart,
     weekEnd |-> weekEndOf(weekStart),
     summary |-> "You wrote N entries this week with an average of W words.",
     keyThemes |-> <<"personal reflection", "self-awareness">>,
     moodTrend |-> "Reflective",
     averageSentiment |-> 0,
     entryCount |-> Len(completedEntries)]

\* a staleness test that holds for every stored insight
needsRegenerationAlways(insight, completedEntries) == TRUE

\* regenerate if no insight exists or more entries than the last one accounted for
needsRegeneration(insight, completedEntries) ==
    insight = Null \/ Len(completedEntries) > insight[1].entryCount

\* replacedInsights that skips the delete of the stored insight
replacedInsightsKeepsOld(insight, newRow) == insights \cup {newRow}

\* weekly_insights after the handler replaced (or first created) the insight
replacedInsights(insight, newRow) ==
    (IF insight # Null THEN deleteWeeklyInsight(insights, insight[1].id) ELSE insights)
        \cup {newRow}

WeeklyInsight(userId, themesReply, insightReply) ==
    LET weekStart == weekStartOf(now)
    IN  \E insight \in getWeeklyInsight(userId, weekStart),
           weekEntries \in getJournalEntriesByDateRange(userId, weekStart, weekEndOf(weekStart)) :
            LET completedEntries == SelectSeq(weekEntries, LAMBDA e : e.isCompleted)
            IN  /\ IF needsRegeneration(insight, completedEntries) /\ Len(completedEntries) > 0
                   THEN /\ nextId.insight <= MaxInsights
                        /\ insights' = replacedInsights(insight,
                               IF themesReply.ok /\ insightReply.ok
                               THEN aiInsight(userId, weekStart, completedEntries, insightReply)
                               ELSE fallbackInsight(userId, weekStart, completedEntries))
                        /\ nextId' = [nextId EXCEPT !.insight = @ + 1]
                        /\ lastOp' = [op |-> "GET weekly", userId |-> userId, status |-> 200,
                                      id |-> Some(nextId.insight),
                                      calls |-> IF themesReply.ok
                                                THEN <<"extractThemes", "generateWeeklyInsight">>
                                                ELSE <<"extractThemes">>]
                   ELSE /\ lastOp' = [op |-> "GET weekly", userId |-> userId, status |-> 200,
                                      id |-> IF insight = Null THEN Null ELSE Some(insight[1].id),
                                      calls |-> <<>>]
                        /\ UNCHANGED <<insights, nextId>>
                /\ UNCHANGED <<now, entries, users, procs>>

-----------------------------------------------------------------------------
(* The clock *)

\* time passes by one tick, up to the end of day lastDay
Tick(lastDay) ==
    /\ now + 1 < (lastDay + 1) * MsPerDay
    /\ now' = now + 1
    /\ UNCHANGED <<entries, users, insights, nextId, lastOp, procs>>

-----------------------------------------------------------------------------
(* The server, handling one request at a time *)

Init ==
    /\ now = StartDay * MsPerDay
    /\ entries = {}
    /\ users = [u \in Users |-> NewUser]
    /\ insights = {}
    /\ nextId = [entry |-> 1, insight |-> 1]
    /\ lastOp = [op |-> "init", userId |-> "", status |-> 0, id |-> Null, calls |-> <<>>]
    /\ procs = <<>>

PostContents == {ShortText, LongText}

PatchContents == {Null, Some(EmptyText), Some(ShortText), Some(LongText2)}

\* the provider is not called: the reply is never looked at
NoCall == {ProviderError}

\* what a provider call may answer, when the handler makes the call at all
outcomes(called, replies) ==
    IF called THEN replies \cup {ProviderError} ELSE NoCall

\* a POST /api/journal-entries by a user of U, the provider answering from SR
Post(U, SR) ==
    \E userId \in U, content \in PostContents, isCompleted \in BOOLEAN :
        \E sentimentReply \in outcomes(isSubstantial(countWords(content)), SR) :
            \E themesReply \in outcomes(sentimentReply.ok, ThemeReplies) :
                PostEntry(userId, content, isCompleted, sentimentReply, themesReply)

\* a PATCH /api/journal-entries/:id by a user of U, the body's content from PC
Patch(U, SR, PC) ==
    \E userId \in U, entryId \in 1..MaxEntries, bodyContent \in PC,
       bodyCompleted \in {Null, Some(TRUE), Some(FALSE)} :
        \E sentimentReply \in outcomes(
                ownedBy(getJournalEntry(entryId), userId)
                /\ needsReanalysis(bodyContent, getJournalEntry(entryId)[1]), SR) :
            PatchEntry(userId, entryId, bodyContent, bodyCompleted, sentimentReply)

\* a DELETE /api/journal-entries/:id by a user of U
Delete(U) ==
    \E userId \in U, entryId \in 1..MaxEntries : DeleteEntry(userId, entryId)

\* a GET /api/insights/weekly by a user of U
Insight(U) ==
    \E userId \in U, themesReply \in outcomes(TRUE, ThemeReplies) :
        \E insightReply \in outcomes(themesReply.ok, InsightReplies) :
            WeeklyInsight(userId, themesReply, insightReply)

\* the users who write entries in Spec; every user of Users sends requests
Writers == {"u1"}

Next ==
    \/ Post(Writers, {HappyReply})
    \/ Patch(Users, {HappyReply}, PatchContents)
    \/ Delete(Users)

Spec == Init /\ [][Next]_vars

-----------------------------------------------------------------------------
(* Properties of the request handlers, checked under Spec *)

\* C1: after a delete request has completed, the owner's stored totalEntries,
\* wordsWritten, currentStreak, longestStreak and lastEntryDate are the values
\* Statistics Recomputation derives from the entries that remain stored.
C1_DeleteRecomputesStats ==
    (lastOp.op = "DELETE" /\ lastOp.status = 200)
        => users[lastOp.userId] \in statsResults(entries, lastOp.userId, now)

\* C7: every stored entry of at most 10 words has sentimentScore,
\* sentimentLabel, mood and themes unset, also after an edit down to 10 words
\* or fewer.
C7_ShortEntriesUnanalysed ==
    \A e \in entries :
        e.wordCount <= 10 =>
            /\ e.sentimentScore = Null
            /\ e.sentimentLabel = Null
            /\ e.mood = Null
            /\ e.themes = Null

\* C8: every entry submission answers 200 and stores exactly one new row,
\* whatever the provider does: answers both calls, fails analyzeSentiment, or
\* fails extractThemes.  (A step that sets lastOp to a POST is a submission.)
C8_SubmissionAlwaysSucceeds ==
    [][(lastOp' # lastOp /\ lastOp'.op = "POST")
          => /\ lastOp'.status = 200
             /\ entries \subseteq entries'
             /\ Cardinality(entries' \ entries) = 1
             /\ \A e \in entries' \ entries :
                    e.userId = lastOp'.userId /\ Some(e.id) = lastOp'.id]_vars

\* C8 witness: a submission whose extractThemes call failed was stored, with the
\* fallback values in place
C8_Witness ==
    /\ lastOp.op = "POST"
    /\ lastOp.status = 200
    /\ lastOp.calls = <<"analyzeSentiment", "extractThemes">>
    /\ \E e \in entries :
          e.id = lastOp.id[1] /\ e.themes = Some(<<>>) /\ e.sentimentScore = Some(0)

\* C9: an edit that changes the content to more than 10 words and meets a
\* ProviderError is still persisted, and the request answers 200.
C9_EditSurvivesProviderError ==
    [][(lastOp' # lastOp /\ lastOp'.op = "PATCH") =>
        \A bodyContent \in PatchContents, bodyCompleted \in {Null, Some(TRUE), Some(FALSE)} :
            ( /\ ownedBy(getJournalEntry(lastOp'.id[1]), lastOp'.userId)
              /\ needsReanalysis(bodyContent, getJournalEntry(lastOp'.id[1])[1])
              /\ PatchEntry(lastOp'.userId, lastOp'.id[1], bodyContent, bodyCompleted,
                            ProviderError) )
                => /\ lastOp'.status = 200
                   /\ \E e \in entries' :
                          e.id = lastOp'.id[1] /\ e.content = bodyContent[1]]_vars

\* C18: when a create or update request has responded, the owner's stored
\* aggregates are the ones recomputed from the stored rows with that request's
\* write in them: the recomputation ran after the write and before the response.
C18_StatsIncludeOwnWrite ==
    (lastOp.op \in {"POST", "PATCH"} /\ lastOp.status = 200)
        => /\ \E e \in entries : e.id = lastOp.id[1] /\ e.userId = lastOp.userId
           /\ users[lastOp.userId] \in statsResults(entries, lastOp.userId, now)

\* C18 witness: an edit to 12 words of a completed entry has responded, and the
\* aggregates count the entry and its new words
C18_Witness ==
    /\ lastOp.op = "PATCH"
    /\ lastOp.status = 200
    /\ \E e \in entries :
          /\ e.id = lastOp.id[1]
          /\ e.isCompleted
          /\ e.wordCount = 12
          /\ users[e.userId].totalEntries >= 1
          /\ users[e.userId].wordsWritten >= 12

\* C23: when a submitted entry has more than 10 words and analyzeSentiment or
\* extractThemes fails, the stored entry has the keyword classifier's mood,
\* sentimentScore 0, sentimentLabel equal to the mood and no themes; a sentiment
\* obtained before extractThemes failed is discarded.
C23_FailedAnalysisStoresFallback ==
    [][(lastOp' # lastOp /\ lastOp'.op = "POST") =>
        \A content \in PostContents, isCompleted \in BOOLEAN,
           sentimentReply \in {HappyReply, ProviderError},
           themesReply \in ThemeReplies \cup {ProviderError} :
            ( /\ isSubstantial(countWords(content))
              /\ ~(sentimentReply.ok /\ themesReply.ok)
              /\ PostEntry(lastOp'.userId, content, isCompleted, sentimentReply,
                           themesReply) )
                => \E e \in entries' \ entries :
                      /\ e.content = content
                      /\ e.mood = Some(detectMoodFromKeywords(content))
                      /\ e.sentimentScore = Some(0)
                      /\ e.sentimentLabel = e.mood
                      /\ e.themes = Some(<<>>)]_vars

\* C23 witness: analyzeSentiment answered "happy", extractThemes failed, and the
\* stored entry of more than 10 words carries the keyword mood "positive"
C23_Witness ==
    /\ lastOp.op = "POST"
    /\ lastOp.calls = <<"analyzeSentiment", "extractThemes">>
    /\ \E e \in entries :
          /\ e.id = lastOp.id[1]
          /\ e.wordCount > 10
          /\ e.mood = Some("positive")
          /\ e.sentimentLabel = Some("positive")
          /\ e.sentimentScore = Some(0)
          /\ e.themes = Some(<<>>)

\* the number of non-empty whitespace-separated tokens of a text: the places
\* where a character that is no space starts the text or follows a space
tokenCount(text) ==
    Cardinality({ i \in 1..Len(text) :
                    ~IsSpace(text[i]) /\ (i = 1 \/ IsSpace(text[i - 1])) })

\* C34: after any create or edit the stored wordCount of an entry is the number
\* of non-empty whitespace-separated tokens of its stored content, the empty
\* string included.
C34_WordCountMatchesContent ==
    \A e \in entries : e.wordCount = tokenCount(e.content)

-----------------------------------------------------------------------------
(* Edits with any request body: PATCH /api/journal-entries/:id on one stored, *)
(* analysed entry.  The handler passes req.body to storage unvalidated, so    *)
(* the body may name any column of journal_entries.                           *)

EditContents == {Null, Some(ShortText), Some(LongText), Some(LongText2)}

\* request bodies: content, isCompleted, mood and userId, each absent or set
EditBodies ==
    [content : EditContents,
     isCompleted : {Null, Some(TRUE), Some(FALSE)},
     mood : {Null, Some(Some("sad"))},
     userId : {Null, Some("u2")}]

\* one completed entry of u1, submitted with LongText and analysed by the provider
InitEdit ==
    /\ now = StartDay * MsPerDay
    /\ \E themesReply \in ThemeReplies :
          entries = { entryRow(1, enrichedEntry("u1", LongText, TRUE, HappyReply, themesReply),
                               now) }
    /\ nextId = [entry |-> 2, insight |-> 1]
    /\ \E st \in statsResults(entries, "u1", now) :
          users = [u \in Users |-> IF u = "u1" THEN st ELSE NewUser]
    /\ insights = {}
    /\ lastOp = [op |-> "init", userId |-> "", status |-> 0, id |-> Null, calls |-> <<>>]
    /\ procs = <<>>

EditRequest ==
    \E userId \in Users, body \in EditBodies :
        \E sentimentReply \in outcomes(
                ownedBy(getJournalEntry(1), userId)
                /\ needsReanalysis(body.content, getJournalEntry(1)[1]), SentimentReplies) :
            PatchRaw(userId, 1, body, sentimentReply)

NextEdit == EditRequest

SpecEdit == InitEdit /\ [][NextEdit]_vars

\* C25: an edit whose content equals the stored content makes no provider call
\* and leaves the entry's sentimentScore, sentimentLabel, mood and themes
\* unchanged.
C25_SameContentEditKeepsAnalysis ==
    [][\A userId \in Users, body \in EditBodies :
          ( /\ ownedBy(getJournalEntry(1), userId)
            /\ body.content = Some(getJournalEntry(1)[1].content)
            /\ PatchRaw(userId, 1, body, ProviderError) )
              => /\ lastOp'.calls = <<>>
                 /\ \E e \in entries, f \in entries' :
                       /\ e.id = 1 /\ f.id = 1
                       /\ f.sentimentScore = e.sentimentScore
                       /\ f.sentimentLabel = e.sentimentLabel
                       /\ f.mood = e.mood
                       /\ f.themes = e.themes]_vars

\* C38: an entry's userId never changes, whatever the sequence of edit
\* requests and whatever their bodies.
C38_OwnerNeverChanges ==
    [][\A e \in entries, f \in entries' : e.id = f.id => f.userId = e.userId]_vars

-----------------------------------------------------------------------------
(* Statistics recomputation on its own: updateUserStats applied to a stored   *)
(* history.  A history is what MaxHist submissions by one user leave behind:  *)
(* ids in order of creation, createdAt never after the clock.                 *)

StatsUser == "u1"

dayOf(t) == t \div MsPerDay

HistoryChoices ==
    [createdAt : 0..(StatsDay * MsPerDay + MsPerDay - 1),
     content : {ShortText, TenText},
     isCompleted : BOOLEAN]

historyRow(i, c) ==
    entryRow(i, parsedEntry(StatsUser, c.content, c.isCompleted), c.createdAt)

InitStats ==
    /\ now \in { StatsDay * MsPerDay + k : k \in 0..(MsPerDay - 1) }
    /\ \E n \in 0..MaxHist :
          \E h \in [1..n -> HistoryChoices] :
              /\ \A i \in 1..n : h[i].createdAt <= now
              /\ \A i \in 1..(n - 1) : h[i].createdAt <= h[i + 1].createdAt
              /\ entries = { historyRow(i, h[i]) : i \in 1..n }
              /\ nextId = [entry |-> n + 1, insight |-> 1]
    /\ users = [u \in Users |-> NewUser]
    /\ insights = {}
    /\ lastOp = [op |-> "init", userId |-> "", status |-> 0, id |-> Null, calls |-> <<>>]
    /\ procs = <<>>

StatsRecompute ==
    /\ lastOp.op = "init"
    /\ updateUserStats(entries, StatsUser)
    /\ lastOp' = [op |-> "updateUserStats", userId |-> StatsUser, status |-> 200,
                  id |-> Null, calls |-> <<>>]
    /\ UNCHANGED <<now, entries, insights, nextId, procs>>

NextStats == StatsRecompute

SpecStats == InitStats /\ [][NextStats]_vars

\* the recomputation has written the aggregates of StatsUser
Recomputed == lastOp.op = "updateUserStats"

completedOf(userId) == { e \in entriesOf(entries, userId) : e.isCompleted }

\* the calendar days on which the user has a completed entry
completedDays(userId) == { dayOf(e.createdAt) : e \in completedOf(userId) }

\* the history is k completed entries, one on each of the k days ending today
ConsecutiveEndingToday(k) ==
    /\ entriesOf(entries, StatsUser) = completedOf(StatsUser)
    /\ Cardinality(entries) = k
    /\ completedDays(StatsUser) = (dayOf(now) - k + 1)..dayOf(now)

\* C3: k completed entries on k consecutive days ending today, one per day,
\* give currentStreak = k and longestStreak = k.
C3_ConsecutiveDaysStreak ==
    Recomputed =>
        \A k \in 1..MaxHist :
            ConsecutiveEndingToday(k) =>
                /\ users[StatsUser].currentStreak = k
                /\ users[StatsUser].longestStreak = k

\* C4: the recomputed currentStreak is 0 exactly when no completed entry's
\* calendar day is today or yesterday.
C4_ZeroStreakIffNoRecentEntry ==
    Recomputed =>
        ( users[StatsUser].currentStreak = 0
            <=> completedDays(StatsUser) \cap {dayOf(now), dayOf(now) - 1} = {} )

\* C4 witness: the newest completed entry is from yesterday, an older one exists,
\* and the recomputed currentStreak is not 0
C4_Witness ==
    /\ Recomputed
    /\ dayOf(now) - 1 \in completedDays(StatsUser)
    /\ dayOf(now) \notin completedDays(StatsUser)
    /\ \E d \in completedDays(StatsUser) : d < dayOf(now) - 1
    /\ users[StatsUser].currentStreak # 0

\* C5: the recomputed aggregates satisfy longestStreak >= currentStreak >= 0.
C5_LongestAtLeastCurrent ==
    Recomputed =>
        /\ users[StatsUser].longestStreak >= users[StatsUser].currentStreak
        /\ users[StatsUser].currentStreak >= 0

\* C5 witness: a history with a completed entry today, recomputed to a positive
\* currentStreak
C5_Witness ==
    /\ Recomputed
    /\ dayOf(now) \in completedDays(StatsUser)
    /\ users[StatsUser].currentStreak > 0
    /\ users[StatsUser].longestStreak >= users[StatsUser].currentStreak

\* the word counts of the rows of S, added up row id by row id
wordTotal(S) ==
    SumSeq([i \in 1..MaxHist |->
               IF \E e \in S : e.id = i
               THEN (CHOOSE e \in S : e.id = i).wordCount ELSE 0])

\* C6 as claimed: wordsWritten is the sum of wordCount over the completed
\* entries only, and totalEntries is the number of completed entries.
C6_WordsOfCompletedOnly ==
    Recomputed =>
        /\ users[StatsUser].wordsWritten = wordTotal(completedOf(StatsUser))
        /\ users[StatsUser].totalEntries = Cardinality(completedOf(StatsUser))

\* C6 amended: wordsWritten is the sum of wordCount over all of the user's
\* entries, completed or not; totalEntries is the number of completed entries.
C6_WordsOfAllEntries ==
    Recomputed =>
        /\ users[StatsUser].wordsWritten = wordTotal(entriesOf(entries, StatsUser))
        /\ users[StatsUser].totalEntries = Cardinality(completedOf(StatsUser))

\* C6 witness: a recomputed history with a completed entry and a draft that has words
C6_Witness ==
    /\ Recomputed
    /\ completedOf(StatsUser) # {}
    /\ \E e \in entriesOf(entries, StatsUser) : ~e.isCompleted /\ e.wordCount > 0

\* the history is completed entries only, one per calendar day, the newest of
\* today and the one before it from two or more days earlier
GapBeforeToday ==
    /\ entriesOf(entries, StatsUser) = completedOf(StatsUser)
    /\ \A e, f \in completedOf(StatsUser) :
          dayOf(e.createdAt) = dayOf(f.createdAt) => e = f
    /\ dayOf(now) \in completedDays(StatsUser)
    /\ completedDays(StatsUser) # {dayOf(now)}
    /\ \A d \in completedDays(StatsUser) \ {dayOf(now)} : d <= dayOf(now) - 2

\* the length of the longest run of consecutive days in a set of days
longestRun(days) ==
    IF days = {} THEN 0
    ELSE CHOOSE k \in 1..Cardinality(days) :
            /\ \E d \in days : d..(d + k - 1) \subseteq days
            /\ \A j \in (k + 1)..Cardinality(days) :
                  ~\E d \in days : d..(d + j - 1) \subseteq days

\* C20: for a history of completed entries, one per day, with an entry today
\* and the next most recent entry two or more calendar days earlier, the
\* recomputation gives currentStreak = 1 and a longestStreak equal to the
\* length of the longest run of consecutive days in the history.
C20_GapResetsCurrentStreak ==
    (Recomputed /\ GapBeforeToday) =>
        /\ users[StatsUser].currentStreak = 1
        /\ users[StatsUser].longestStreak = longestRun(completedDays(StatsUser))

\* C20 witness: an entry today, none yesterday, and a run of two consecutive
\* days before the gap, recomputed to currentStreak 1 and longestStreak 2
C20_Witness ==
    /\ Recomputed
    /\ GapBeforeToday
    /\ longestRun(completedDays(StatsUser)) = 2
    /\ users[StatsUser].currentStreak = 1
    /\ users[StatsUser].longestStreak = 2

-----------------------------------------------------------------------------
(* Statistics recomputation run twice on one history: updateUserStats, then   *)
(* again on the same rows, on the same day, with another users row in place   *)
(* when the second run starts.                                                *)

\* a users row left behind by earlier writes, unrelated to the stored history
StaleUser ==
    [currentStreak |-> 5, longestStreak |-> 9, totalEntries |-> 7,
     wordsWritten |-> 50, lastEntryDate |-> Some(0)]

\* the users rows a run may start from
CachedAggregates == {NewUser, StaleUser}

InitStatsTwice ==
    /\ now = StatsDay * MsPerDay
    /\ \E n \in 0..MaxHist :
          \E h \in [1..n -> HistoryChoices] :
              /\ \A i \in 1..n : h[i].createdAt <= now
              /\ \A i \in 1..(n - 1) : h[i].createdAt <= h[i + 1].createdAt
              /\ entries = { historyRow(i, h[i]) : i \in 1..n }
              /\ nextId = [entry |-> n + 1, insight |-> 1]
    /\ \E c \in CachedAggregates :
          users = [u \in Users |-> IF u = StatsUser THEN c ELSE NewUser]
    /\ insights = {}
    /\ lastOp = [op |-> "init", userId |-> "", status |-> 0, id |-> Null, calls |-> <<>>]
    /\ procs = <<>>

\* one run of updateUserStats; procs records the row it started from and the
\* row it wrote
StatsRerun ==
    /\ Len(procs) < 2
    /\ updateUserStats(entries, StatsUser)
    /\ procs' = Append(procs, [day |-> dayOf(now), cached |-> users[StatsUser],
                               written |-> users'[StatsUser]])
    /\ lastOp' = [op |-> "updateUserStats", userId |-> StatsUser, status |-> 200,
                  id |-> Null, calls |-> <<>>]
    /\ UNCHANGED <<now, entries, insights, nextId>>

\* the second run starts from another users row than the first run left
CacheReplaced(c) ==
    /\ Len(procs) = 1
    /\ users[StatsUser] # c
    /\ users' = [users EXCEPT ![StatsUser] = c]
    /\ UNCHANGED <<now, entries, insights, nextId, lastOp, procs>>

\* the clock moves on within the day
StatsClock ==
    /\ dayOf(now + 1) = dayOf(now)
    /\ now' = now + 1
    /\ UNCHANGED <<entries, users, insights, nextId, lastOp, procs>>

NextStatsTwice ==
    \/ StatsRerun
    \/ \E c \in CachedAggregates : CacheReplaced(c)
    \/ StatsClock

SpecStatsTwice == InitStatsTwice /\ [][NextStatsTwice]_vars

\* C21: two runs of the recomputation on the same stored entries and the same
\* day write identical aggregates, whatever users row each run started from.
C21_StatsIgnoreCachedRow ==
    \A i, j \in DOMAIN procs :
        procs[i].day = procs[j].day => procs[i].written = procs[j].written

\* C21 witness: two runs on a history with a completed entry, started from
\* different users rows, the second from one that differs from what it wrote
C21_Witness ==
    /\ Len(procs) = 2
    /\ procs[1].cached # procs[2].cached
    /\ procs[2].cached # procs[2].written
    /\ procs[2].written.totalEntries > 0
    /\ procs[1].written = procs[2].written

-----------------------------------------------------------------------------
(* Concurrent entry submissions.  Each await of createJournalEntry is a point *)
(* where another request may run: the insert, the select of updateUserStats,  *)
(* and its update of the users row.                                           *)

\* the submissions in flight
NumSubmitters == 2

RaceUser == "u1"

InitRace ==
    /\ now = StartDay * MsPerDay
    /\ entries = {}
    /\ users = [u \in Users |-> NewUser]
    /\ insights = {}
    /\ nextId = [entry |-> 1, insight |-> 1]
    /\ lastOp = [op |-> "init", userId |-> "", status |-> 0, id |-> Null, calls |-> <<>>]
    /\ procs = [p \in 1..NumSubmitters |-> [pc |-> "start", userId |-> RaceUser, rows |-> {}]]

\* the POST handler up to the end of db.insert in createJournalEntry
RaceInsert(p, content, isCompleted, sentimentReply, themesReply) ==
    /\ procs[p].pc = "start"
    /\ insertJournalEntry(enrichedEntry(procs[p].userId, content, isCompleted,
                                        sentimentReply, themesReply))
    /\ procs' = [procs EXCEPT ![p].pc = "inserted"]
    /\ UNCHANGED <<now, users, insights, lastOp>>

\* updateUserStats: the select of the user's rows
RaceSelect(p) ==
    /\ procs[p].pc = "inserted"
    /\ procs' = [procs EXCEPT ![p].pc = "selected",
                              ![p].rows = entriesOf(entries, procs[p].userId)]
    /\ UNCHANGED <<now, entries, users, insights, nextId, lastOp>>

\* updateUserStats: the update of the users row from the selected rows, and
\* the response
RaceUpdate(p) ==
    /\ procs[p].pc = "selected"
    /\ updateUserStats(procs[p].rows, procs[p].userId)
    /\ procs' = [procs EXCEPT ![p].pc = "done"]
    /\ lastOp' = [op |-> "POST", userId |-> procs[p].userId, status |-> 200,
                  id |-> Null, calls |-> <<>>]
    /\ UNCHANGED <<now, entries, insights, nextId>>

NextRace ==
    \/ \E p \in 1..NumSubmitters, content \in PostContents, isCompleted \in BOOLEAN :
          \E sentimentReply \in outcomes(isSubstantial(countWords(content)), {HappyReply}) :
              \E themesReply \in outcomes(sentimentReply.ok, ThemeReplies) :
                  RaceInsert(p, content, isCompleted, sentimentReply, themesReply)
    \/ \E p \in 1..NumSubmitters : RaceSelect(p)
    \/ \E p \in 1..NumSubmitters : RaceUpdate(p)

SpecRace == InitRace /\ [][NextRace]_vars

\* C2: once two concurrent submissions of one user have both completed, the
\* user's stored aggregates are the values derived from the final stored
\* entry set.
C2_RacingSubmissionsConverge ==
    (\A p \in DOMAIN procs : procs[p].pc = "done")
        => users[RaceUser] \in statsResults(entries, RaceUser, now)

-----------------------------------------------------------------------------
(* The server with the weekly-insight aggregator and the clock: requests
   handled one at a time, edits that only flip isCompleted *)

NextInsight ==
    \/ Post(Writers, SentimentReplies)
    \/ Patch(Writers, SentimentReplies, {Null})
    \/ Delete(Writers)
    \/ Insight(Writers)
    \/ Tick(MaxDay)

SpecInsight == Init /\ [][NextInsight]_vars

\* C10: with requests handled one at a time, at most one weekly_insights row
\* exists for each (user, weekStart) pair.
C10_OneInsightPerWeek ==
    \A i, j \in insights :
        (i.userId = j.userId /\ i.weekStart = j.weekStart) => i = j

\* C10 witness: a stale insight was replaced (the second insight created) and a
\* single row stands for the week
C10_Witness ==
    /\ lastOp.op = "GET weekly"
    /\ lastOp.id = Some(2)
    /\ \E i \in insights : i.id = 2 /\ i.entryCount = 2 /\ i.weekStart = weekStartOf(now)

\* the completed entries of the user created in the week of t
completedInWeek(userId, t) ==
    { e \in entriesOf(entries, userId) :
        /\ e.isCompleted
        /\ e.createdAt >= weekStartOf(t)
        /\ e.createdAt <= weekEndOf(weekStartOf(t)) }

\* C12: a weekly-insight call that directly follows another one of the same
\* user in the same week (only the clock moved in between, so the number of
\* completed entries is unchanged) answers the same insight id and neither
\* deletes nor creates a weekly_insights row.
C12_RepeatedCallKeepsInsight ==
    [][( /\ lastOp.op = "GET weekly"
         /\ lastOp'.op = "GET weekly"
         /\ lastOp'.userId = lastOp.userId
         /\ lastOp.id # Null =>
               \E i \in insights : i.id = lastOp.id[1] /\ i.weekStart = weekStartOf(now') )
          => /\ insights' = insights
             /\ lastOp'.id = lastOp.id]_vars

\* C12 witness: a call that found the week's insight up to date with the stored
\* entries and answered it without a provider call
C12_Witness ==
    /\ lastOp.op = "GET weekly"
    /\ lastOp.calls = <<>>
    /\ lastOp.id # Null
    /\ \E i \in insights :
          /\ i.id = lastOp.id[1]
          /\ i.weekStart = weekStartOf(now)
          /\ i.entryCount = Cardinality(completedInWeek(lastOp.userId, now))
          /\ i.entryCount > 0

\* C26: when a weekly-insight request finds a stored insight whose entryCount is
\* less than the number of completed entries of the week, then after the
\* request the old row is gone and exactly one insight exists for that user and
\* week, with a new id and entryCount equal to the number of completed entries,
\* whether the provider answered or failed.
C26_StaleInsightReplaced ==
    [][\A old \in insights :
          ( /\ lastOp' # lastOp
            /\ lastOp'.op = "GET weekly"
            /\ old.userId = lastOp'.userId
            /\ old.weekStart = weekStartOf(now)
            /\ old.entryCount < Cardinality(completedInWeek(old.userId, now)) )
              => /\ \A i \in insights' : i.id # old.id
                 /\ \E new \in insights' :
                       /\ \A i \in insights' :
                             (i.userId = old.userId /\ i.weekStart = old.weekStart) => i = new
                       /\ new.userId = old.userId
                       /\ new.weekStart = old.weekStart
                       /\ \A i \in insights : i.id # new.id
                       /\ lastOp'.id = Some(new.id)
                       /\ new.entryCount = Cardinality(completedInWeek(old.userId, now))]_vars

\* C26 witness: the provider failed while a stale insight was being replaced,
\* and the fallback row with the new id and the current count stands alone
C26_Witness ==
    /\ lastOp.op = "GET weekly"
    /\ lastOp.calls = <<"extractThemes">>
    /\ lastOp.id = Some(2)
    /\ \A i \in insights : i.id = 2
    /\ \E i \in insights :
          /\ i.weekStart = weekStartOf(now)
          /\ i.moodTrend = "Reflective"
          /\ i.entryCount = 2
          /\ i.entryCount = Cardinality(completedInWeek(lastOp.userId, now))

\* C27: a weekly-insight request for a week with no completed entries creates
\* no weekly_insights row and makes no provider call.
C27_EmptyWeekCreatesNothing ==
    [][( /\ lastOp'.op = "GET weekly"
         /\ now' = now
         /\ completedInWeek(lastOp'.userId, now) = {} )
          => /\ insights' = insights
             /\ lastOp'.calls = <<>>]_vars

\* C27 witness: a request in a week that holds only a draft of the user, who
\* has a completed entry in the week before, answered no insight
C27_Witness ==
    /\ lastOp.op = "GET weekly"
    /\ lastOp.id = Null
    /\ lastOp.calls = <<>>
    /\ insights = {}
    /\ completedInWeek(lastOp.userId, now) = {}
    /\ \E e \in entriesOf(entries, lastOp.userId) :
          ~e.isCompleted /\ e.createdAt >= weekStartOf(now)
    /\ \E e \in entriesOf(entries, lastOp.userId) :
          e.isCompleted /\ e.createdAt < weekStartOf(now)

\* C37: after a weekly-insight request that answers an insight of the current
\* week, the insight's entryCount equals the number of completed entries now
\* stored in the week's window, also when entries were deleted or marked not
\* completed since the insight was generated.
C37_EntryCountMatchesWeek ==
    [][( /\ lastOp'.op = "GET weekly"
         /\ now' = now
         /\ lastOp'.id # Null )
          => \A i \in insights' :
                (i.id = lastOp'.id[1] /\ i.weekStart = weekStartOf(now))
                    => i.entryCount = Cardinality(completedInWeek(lastOp'.userId, now))]_vars

-----------------------------------------------------------------------------
(* Concurrent weekly-insight requests.  Each await of the handler is a point  *)
(* where another request may run: getWeeklyInsight, the range query, the two  *)
(* provider calls, deleteWeeklyInsight and createWeeklyInsight.               *)

\* the weekly-insight requests in flight
NumRequests == 2

InsightUser == "u1"

\* a stored insight of the current week that accounts for one entry
staleInsight ==
    [id |-> 1, userId |-> InsightUser, weekStart |-> weekStartOf(StartDay * MsPerDay),
     weekEnd |-> weekEndOf(weekStartOf(StartDay * MsPerDay)),
     summary |-> "You wrote N entries this week with an average of W words.",
     keyThemes |-> <<"personal reflection", "self-awareness">>,
     moodTrend |-> "Reflective", averageSentiment |-> 0, entryCount |-> 1]

\* the week's entries are in place; the week has no insight yet, or a stale one
InitInsightRace ==
    /\ now = StartDay * MsPerDay
    /\ \E n \in 1..MaxEntries :
          \E done \in [1..n -> BOOLEAN] :
              /\ entries = { entryRow(i, parsedEntry(InsightUser, ShortText, done[i]), now) :
                               i \in 1..n }
              /\ nextId \in { [entry |-> n + 1, insight |-> k] : k \in 1..2 }
    /\ insights = IF nextId.insight = 1 THEN {} ELSE {staleInsight}
    /\ \E st \in statsResults(entries, InsightUser, now) :
          users = [u \in Users |-> IF u = InsightUser THEN st ELSE NewUser]
    /\ lastOp = [op |-> "init", userId |-> "", status |-> 0, id |-> Null, calls |-> <<>>]
    /\ procs = [p \in 1..NumRequests |->
                   [pc |-> "start", userId |-> InsightUser, weekStart |-> weekStartOf(now),
                    insight |-> Null, completedEntries |-> <<>>, aiReply |-> Null]]

\* let insight = await storage.getWeeklyInsight(userId, weekStart)
IRGetInsight(p) ==
    /\ procs[p].pc = "start"
    /\ \E insight \in getWeeklyInsight(procs[p].userId, procs[p].weekStart) :
          procs' = [procs EXCEPT ![p].pc = "gotInsight", ![p].insight = insight]
    /\ UNCHANGED <<now, entries, users, insights, nextId, lastOp>>

\* await getJournalEntriesByDateRange, the filter and the regeneration test;
\* a request that need not regenerate responds here
IRGetEntries(p) ==
    /\ procs[p].pc = "gotInsight"
    /\ \E weekEntries \in getJournalEntriesByDateRange(procs[p].userId, procs[p].weekStart,
                                                       weekEndOf(procs[p].weekStart)) :
          LET completedEntries == SelectSeq(weekEntries, LAMBDA e : e.isCompleted)
              regenerate == needsRegeneration(procs[p].insight, completedEntries)
                            /\ Len(completedEntries) > 0
          IN  /\ procs' = [procs EXCEPT ![p].pc = IF regenerate THEN "themes" ELSE "done",
                                        ![p].completedEntries = completedEntries]
              /\ lastOp' = IF regenerate THEN lastOp
                           ELSE [op |-> "GET weekly", userId |-> procs[p].userId,
                                 status |-> 200,
                                 id |-> IF procs[p].insight = Null THEN Null
                                        ELSE Some(procs[p].insight[1].id),
                                 calls |-> <<>>]
    /\ UNCHANGED <<now, entries, users, insights, nextId>>

\* where the handler goes once the new row's values are known: the delete of
\* the old insight if there is one, else straight to the create
afterValues(p) == IF procs[p].insight # Null THEN "delete" ELSE "create"

\* const themes = await extractThemes(validEntries)
IRThemes(p, themesReply) ==
    /\ procs[p].pc = "themes"
    /\ procs' = [procs EXCEPT ![p].pc = IF themesReply.ok THEN "generate" ELSE afterValues(p)]
    /\ UNCHANGED <<now, entries, users, insights, nextId, lastOp>>

\* const weeklyData = await generateWeeklyInsight(...)
IRGenerate(p, insightReply) ==
    /\ procs[p].pc = "generate"
    /\ procs' = [procs EXCEPT ![p].pc = afterValues(p),
                              ![p].aiReply = IF insightReply.ok THEN Some(insightReply)
                                             ELSE Null]
    /\ UNCHANGED <<now, entries, users, insights, nextId, lastOp>>

\* await storage.deleteWeeklyInsight(insight.id)
IRDelete(p) ==
    /\ procs[p].pc = "delete"
    /\ insights' = deleteWeeklyInsight(insights, procs[p].insight[1].id)
    /\ procs' = [procs EXCEPT ![p].pc = "create"]
    /\ UNCHANGED <<now, entries, users, nextId, lastOp>>

\* insight = await storage.createWeeklyInsight({...}); res.json(insight)
IRCreate(p) ==
    /\ procs[p].pc = "create"
    /\ insights' = insights \cup
          { IF procs[p].aiReply # Null
            THEN aiInsight(procs[p].userId, procs[p].weekStart, procs[p].completedEntries,
                           procs[p].aiReply[1])
            ELSE fallbackInsight(procs[p].userId, procs[p].weekStart,
                                 procs[p].completedEntries) }
    /\ nextId' = [nextId EXCEPT !.insight = @ + 1]
    /\ procs' = [procs EXCEPT ![p].pc = "done"]
    /\ lastOp' = [op |-> "GET weekly", userId |-> procs[p].userId, status |-> 200,
                  id |-> Some(nextId.insight), calls |-> <<>>]
    /\ UNCHANGED <<now, entries, users>>

NextInsightRace ==
    \/ \E p \in 1..NumRequests : IRGetInsight(p)
    \/ \E p \in 1..NumRequests : IRGetEntries(p)
    \/ \E p \in 1..NumRequests, themesReply \in outcomes(TRUE, ThemeReplies) :
          IRThemes(p, themesReply)
    \/ \E p \in 1..NumRequests, insightReply \in outcomes(TRUE, InsightReplies) :
          IRGenerate(p, insightReply)
    \/ \E p \in 1..NumRequests : IRDelete(p)
    \/ \E p \in 1..NumRequests : IRCreate(p)

SpecInsightRace == InitInsightRace /\ [][NextInsightRace]_vars

\* C11: once two interleaved weekly-insight requests of one user and week have
\* both completed, at most one weekly_insights row exists for that
\* (user, weekStart).
C11_RacingInsightsOneRow ==
    (\A p \in DOMAIN procs : procs[p].pc = "done")
        => \A i, j \in insights :
              (i.userId = j.userId /\ i.weekStart = j.weekStart) => i = j

-----------------------------------------------------------------------------
(* One request and the provider calls it waits for.  The handler awaits each  *)
(* generateContent call with no timeout and no abort signal: only an answer   *)
(* or an error of the provider lets it go on.  The event loop runs a handler  *)
(* whose awaited call has settled; nothing makes the provider answer.         *)

\* does GET /api/insights/weekly reach the provider calls in this state
insightAsksProvider(userId) ==
    \E insight \in getWeeklyInsight(userId, weekStartOf(now)),
       weekEntries \in getJournalEntriesByDateRange(userId, weekStartOf(now),
                                                    weekEndOf(weekStartOf(now))) :
        LET completedEntries == SelectSeq(weekEntries, LAMBDA e : e.isCompleted)
        IN  needsRegeneration(insight, completedEntries) /\ Len(completedEntries) > 0

\* some entries of the week are stored, with or without a stale insight; no
\* request has come in yet
InitAwait ==
    /\ now = StartDay * MsPerDay
    /\ \E n \in 0..(MaxEntries - 1) :
          \E done \in [1..n -> BOOLEAN] :
              /\ entries = { entryRow(i, parsedEntry(InsightUser, ShortText, done[i]), now) :
                               i \in 1..n }
              /\ nextId \in { [entry |-> n + 1, insight |-> k] : k \in 1..2 }
    /\ insights = IF nextId.insight = 1 THEN {} ELSE {staleInsight}
    /\ \E st \in statsResults(entries, InsightUser, now) :
          users = [u \in Users |-> IF u = InsightUser THEN st ELSE NewUser]
    /\ lastOp = [op |-> "init", userId |-> "", status |-> 0, id |-> Null, calls |-> <<>>]
    /\ procs = [pc |-> "idle", op |-> "", userId |-> "", entryData |-> Null,
                sentimentReply |-> ProviderError, themesReply |-> ProviderError,
                insightReply |-> ProviderError, calls |-> <<>>]

\* POST /api/journal-entries comes in and runs to its first provider call, or
\* to the end of the analysis when the content is not substantial
AwaitPost(userId, content, isCompleted) ==
    /\ procs.pc = "idle"
    /\ nextId.entry <= MaxEntries
    /\ procs' = [procs EXCEPT !.pc = IF isSubstantial(countWords(content))
                                     THEN "analyzeSentiment" ELSE "ready",
                              !.op = "POST", !.userId = userId,
                              !.entryData = Some(parsedEntry(userId, content, isCompleted))]
    /\ UNCHANGED <<now, entries, users, insights, nextId, lastOp>>

\* GET /api/insights/weekly comes in and runs to its first provider call, or
\* to the response when nothing is to be regenerated
AwaitInsight(userId) ==
    /\ procs.pc = "idle"
    /\ nextId.insight <= MaxInsights
    /\ procs' = [procs EXCEPT !.pc = IF insightAsksProvider(userId)
                                     THEN "extractThemes" ELSE "ready",
                              !.op = "GET weekly", !.userId = userId]
    /\ UNCHANGED <<now, entries, users, insights, nextId, lastOp>>

\* the provider settles the call the handler is waiting for: the handler goes
\* on to its next provider call, or to the end of its try block (a failure
\* enters the catch block, which for a submission sets the fallback values)
ProviderSettles(reply) ==
    /\ procs.pc \in {"analyzeSentiment", "extractThemes", "generateWeeklyInsight"}
    /\ procs' =
          CASE procs.pc = "analyzeSentiment" ->
                  [procs EXCEPT !.sentimentReply = reply,
                                !.calls = Append(@, "analyzeSentiment"),
                                !.entryData = IF reply.ok THEN @
                                              ELSE Some(fallbackEnriched(@[1])),
                                !.pc = IF reply.ok THEN "extractThemes" ELSE "ready"]
            [] procs.pc = "extractThemes" /\ procs.op = "POST" ->
                  [procs EXCEPT !.themesReply = reply,
                                !.calls = Append(@, "extractThemes"),
                                !.entryData =
                                    IF reply.ok
                                    THEN Some(aiEnriched(@[1], procs.sentimentReply, reply))
                                    ELSE Some(fallbackEnriched(@[1])),
                                !.pc = "ready"]
            [] procs.pc = "extractThemes" /\ procs.op = "GET weekly" ->
                  [procs EXCEPT !.themesReply = reply,
                                !.pc = IF reply.ok THEN "generateWeeklyInsight" ELSE "ready"]
            [] procs.pc = "generateWeeklyInsight" ->
                  [procs EXCEPT !.insightReply = reply, !.pc = "ready"]
    /\ UNCHANGED <<now, entries, users, insights, nextId, lastOp>>

\* the handler runs from its last settled await to the response
AwaitRespond ==
    /\ procs.pc = "ready"
    /\ lastOp.op = "init"
    /\ IF procs.op = "POST"
       THEN /\ createJournalEntry(procs.entryData[1])
            /\ lastOp' = [op |-> "POST", userId |-> procs.userId, status |-> 200,
                          id |-> Some(nextId.entry), calls |-> procs.calls]
            /\ UNCHANGED <<now, insights, procs>>
       ELSE WeeklyInsight(procs.userId, procs.themesReply, procs.insightReply)

NextAwait ==
    \/ \E content \in PostContents, isCompleted \in BOOLEAN :
          AwaitPost(InsightUser, content, isCompleted)
    \/ AwaitInsight(InsightUser)
    \/ \E reply \in { IF procs.pc = "analyzeSentiment" THEN HappyReply
                      ELSE IF procs.pc = "extractThemes"
                           THEN CHOOSE r \in ThemeReplies : TRUE
                           ELSE CHOOSE r \in InsightReplies : TRUE,
                      ProviderError } :
          ProviderSettles(reply)
    \/ AwaitRespond

SpecAwait == InitAwait /\ [][NextAwait]_vars /\ WF_vars(AwaitRespond)

\* C19: every entry submission and weekly-insight request that has come in is
\* eventually responded to, whether or not the provider ever settles its call.
C19_RequestsEventuallyRespond ==
    (procs.pc # "idle") ~> (lastOp.op # "init")

-----------------------------------------------------------------------------
(* The keyword classifier on its own: detectMoodFromKeywords applied to a     *)
(* text of at most MaxTokens words of a small vocabulary, or to one of the    *)
(* three sample sentences.                                                    *)

\* words in a generated text
MaxTokens == 3

\* "Happy", "joy", "sad", "hate", "okay", "fine", "unhappy", "x"
Vocabulary ==
    { <<"H","a","p","p","y">>, <<"j","o","y">>, <<"s","a","d">>, <<"h","a","t","e">>, <<"o","k","a","y">>, <<"f","i","n","e">>, <<"u","n","h","a","p","p","y">>, <<"x">> }

\* "I feel happy and grateful today"
GratefulText ==
    <<"I"," ","f","e","e","l"," ","h","a","p","p","y"," ","a","n","d"," ","g","r","a","t","e","f","u","l"," ","t","o","d","a","y">>

\* "I am stressed and anxious"
StressedText ==
    <<"I"," ","a","m"," ","s","t","r","e","s","s","e","d"," ","a","n","d"," ","a","n","x","i","o","u","s">>

\* "it was an okay regular day"
RegularText ==
    <<"i","t"," ","w","a","s"," ","a","n"," ","o","k","a","y"," ","r","e","g","u","l","a","r"," ","d","a","y">>

\* the words joined by single spaces
RECURSIVE joinWords(_)
joinWords(ws) ==
    IF ws = <<>> THEN <<>>
    ELSE IF Len(ws) = 1 THEN ws[1]
    ELSE ws[1] \o <<" ">> \o joinWords(Tail(ws))

MoodTexts ==
    { joinWords(ws) : ws \in UNION { [1..n -> Vocabulary] : n \in 0..MaxTokens } }
        \cup {GratefulText, StressedText, RegularText}

InitMood ==
    /\ now = StartDay * MsPerDay
    /\ entries = {}
    /\ users = [u \in Users |-> NewUser]
    /\ insights = {}
    /\ nextId = [entry |-> 1, insight |-> 1]
    /\ lastOp = [op |-> "init", userId |-> "", status |-> 0, id |-> Null, calls |-> <<>>]
    /\ procs \in { [content |-> t, mood |-> Null] : t \in MoodTexts }

\* one call of detectMoodFromKeywords(content)
ClassifyMood ==
    /\ procs.mood = Null
    /\ procs' = [procs EXCEPT !.mood = Some(detectMoodFromKeywords(procs.content))]
    /\ lastOp' = [lastOp EXCEPT !.op = "detectMoodFromKeywords"]
    /\ UNCHANGED <<now, entries, users, insights, nextId>>

NextMood == ClassifyMood

SpecMood == InitMood /\ [][NextMood]_vars

\* the places of the text where the word starts
positions(word, text) ==
    { i \in 1..Len(text) : i + Len(word) - 1 <= Len(text)
                           /\ \A k \in 1..Len(word) : text[i + k - 1] = word[k] }

\* the words of the lexicon found in the text, each once
wordsFound(words, text) ==
    Len(SelectSeq(words, LAMBDA w : positions(w, text) # {}))

\* the occurrences of the lexicon's words in the text, each occurrence counted
occurrencesFound(words, text) ==
    SumSeq([w \in 1..Len(words) |-> Cardinality(positions(words[w], text))])

\* the ordered rules on the three counts
ruleMood(positive, negative, neutral) ==
    CASE positive > negative /\ positive > neutral -> "positive"
      [] ~(positive > negative /\ positive > neutral)
         /\ negative > positive /\ negative > neutral -> "negative"
      [] ~(positive > negative /\ positive > neutral)
         /\ ~(negative > positive /\ negative > neutral)
         /\ negative > 0 /\ positive = 0 -> "anxious"
      [] ~(positive > negative /\ positive > neutral)
         /\ ~(negative > positive /\ negative > neutral)
         /\ ~(negative > 0 /\ positive = 0)
         /\ positive > 0 /\ negative = 0 -> "content"
      [] OTHER -> "neutral"

\* the text's only lexicon hits are negative words
OnlyNegativeHits(content) ==
    /\ wordsFound(negativeWords, toLowerCase(content)) > 0
    /\ wordsFound(positiveWords, toLowerCase(content)) = 0
    /\ wordsFound(neutralWords, toLowerCase(content)) = 0

\* C13 as claimed: a text whose only lexicon hits are negative words is
\* classified anxious.
C13_NegativeOnlyIsAnxious ==
    (procs.mood # Null /\ OnlyNegativeHits(procs.content)) => procs.mood = Some("anxious")

\* C13 amended: a text whose only lexicon hits are negative words is classified
\* negative; anxious is the answer only when there are negative hits, no
\* positive hits and at least as many neutral hits as negative ones.
C13_NegativeOnlyIsNegative ==
    procs.mood # Null =>
        /\ OnlyNegativeHits(procs.content) => procs.mood = Some("negative")
        /\ procs.mood = Some("anxious") =>
              /\ wordsFound(negativeWords, toLowerCase(procs.content)) > 0
              /\ wordsFound(positiveWords, toLowerCase(procs.content)) = 0
              /\ wordsFound(neutralWords, toLowerCase(procs.content))
                    >= wordsFound(negativeWords, toLowerCase(procs.content))

\* C13 witness: "I am stressed and anxious" has been classified, as negative
C13_Witness ==
    /\ procs.content = StressedText
    /\ procs.mood = Some("negative")

\* C14 as claimed: the classifier equals the reference that counts the
\* occurrences of the lexicon words in the lower-cased text and applies the
\* ordered rules.
C14_EqualsOccurrenceReference ==
    procs.mood # Null =>
        procs.mood = Some(ruleMood(occurrencesFound(positiveWords, toLowerCase(procs.content)),
                                   occurrencesFound(negativeWords, toLowerCase(procs.content)),
                                   occurrencesFound(neutralWords, toLowerCase(procs.content))))

\* C14 amended: the classifier equals the reference that counts, per lexicon,
\* how many of its words occur in the lower-cased text (a word that occurs
\* several times counts once) and applies the ordered rules.
C14_EqualsPresenceReference ==
    procs.mood # Null =>
        procs.mood = Some(ruleMood(wordsFound(positiveWords, toLowerCase(procs.content)),
                                   wordsFound(negativeWords, toLowerCase(procs.content)),
                                   wordsFound(neutralWords, toLowerCase(procs.content))))

\* C14 witness: a classified text in which a negative word occurs twice and a
\* positive word once
C14_Witness ==
    /\ procs.mood # Null
    /\ occurrencesFound(negativeWords, toLowerCase(procs.content)) = 2
    /\ wordsFound(negativeWords, toLowerCase(procs.content)) = 1
    /\ wordsFound(positiveWords, toLowerCase(procs.content)) = 1

-----------------------------------------------------------------------------
(* The curated daily prompt on its own: getDailyPrompt called on a date, and  *)
(* again later the same day or 10 list lengths of days later.  Tick 0 is the  *)
(* local midnight that starts 1 January of FirstYear; no daylight saving.     *)

\* calendar years in which the first call may fall
PromptYears == 2

\* the calendar year of tick 0
FirstYear == 2023

\* getCuratedPrompts().length
NumPrompts == 10

\* 10 curated-list-lengths of days
CycleDays == 10 * NumPrompts

isLeapYear(y) == (y % 4 = 0 /\ y % 100 # 0) \/ y % 400 = 0

daysInYear(y) == IF isLeapYear(y) THEN 366 ELSE 365

\* the tick of new Date(y, 0, 1): local midnight of 1 January of year y
RECURSIVE yearStart(_)
yearStart(y) ==
    IF y <= FirstYear THEN 0 ELSE yearStart(y - 1) + daysInYear(y - 1) * MsPerDay

\* Date.prototype.getFullYear, searching from year y on
RECURSIVE fullYearFrom(_, _)
fullYearFrom(t, y) == IF t < yearStart(y + 1) THEN y ELSE fullYearFrom(t, y + 1)

getFullYear(t) == fullYearFrom(t, FirstYear)

\* new Date(today.getFullYear(), 0, 0): day 0 of January, i.e. 31 December before
yearDayZero(t) == yearStart(getFullYear(t)) - MsPerDay

\* Math.floor((today.getTime() - new Date(today.getFullYear(), 0, 0).getTime()) / day)
dayOfYear(t) == (t - yearDayZero(t)) \div MsPerDay

\* the curated prompt at a list index: its number k of id "prompt-k"
getCuratedPrompts == [i \in 0..(NumPrompts - 1) |-> i + 1]

\* getDailyPrompt() called at time t
getDailyPrompt(t) == getCuratedPrompts[dayOfYear(t) % NumPrompts]

InitPrompt ==
    /\ now \in 0..(yearStart(FirstYear + PromptYears) - 1)
    /\ entries = {}
    /\ users = [u \in Users |-> NewUser]
    /\ insights = {}
    /\ nextId = [entry |-> 1, insight |-> 1]
    /\ lastOp = [op |-> "init", userId |-> "", status |-> 0, id |-> Null, calls |-> <<>>]
    /\ procs = <<>>

\* one call of getDailyPrompt(); procs logs the calls made
DailyPromptCall ==
    /\ Len(procs) < 2
    /\ procs' = Append(procs, [at |-> now, prompt |-> getDailyPrompt(now)])
    /\ lastOp' = [lastOp EXCEPT !.op = "getDailyPrompt"]
    /\ UNCHANGED <<now, entries, users, insights, nextId>>

\* after the first call, time passes within the calendar day
LaterSameDay ==
    /\ Len(procs) = 1
    /\ now = procs[1].at
    /\ startOfDay(now + 1) = startOfDay(now)
    /\ now' = now + 1
    /\ UNCHANGED <<entries, users, insights, nextId, lastOp, procs>>

\* after the first call, 10 list lengths of days pass
CycleLater ==
    /\ Len(procs) = 1
    /\ startOfDay(now) = startOfDay(procs[1].at)
    /\ now' = now + CycleDays * MsPerDay
    /\ UNCHANGED <<entries, users, insights, nextId, lastOp, procs>>

NextPrompt == DailyPromptCall \/ LaterSameDay \/ CycleLater

SpecPrompt == InitPrompt /\ [][NextPrompt]_vars

\* the two logged calls fell on the same calendar date
SameDateCalls == Len(procs) = 2 /\ startOfDay(procs[2].at) = startOfDay(procs[1].at)

\* the second logged call fell on the date CycleDays days after the first's
CycleApartCalls ==
    Len(procs) = 2 /\ startOfDay(procs[2].at) = startOfDay(procs[1].at) + CycleDays * MsPerDay

\* C15: for every date, two calls on the same calendar date, and two calls on
\* dates 10 x N days apart, return the identical prompt.
C15_SamePromptEveryCycle ==
    (SameDateCalls \/ CycleApartCalls) => procs[2].prompt = procs[1].prompt

-----------------------------------------------------------------------------
(* Daily prompts: GET /api/ai-prompts/daily and POST /api/ai-prompts/:id/use, *)
(* handled one at a time over the rows of ai_prompts.  procs holds the table  *)
(* and the next id it hands out.                                              *)

\* rows of ai_prompts the handlers may create
MaxPrompts == 3

\* the provider's answer to a prompt instruction, or its failure
PromptReplies == { [ok |-> TRUE, prompt |-> "ai"], [ok |-> FALSE, prompt |-> ""] }

promptsOf(userId) == { r \in procs.prompts : r.userId = userId }

unusedPromptsOf(userId) == { r \in promptsOf(userId) : ~r.isUsed }

\* getUnusedPromptForUser that finds no row
getUnusedPromptForUserNone(userId) == {Null}

\* getUnusedPromptForUser(userId): the newest unused row (any of the newest
\* when several share createdAt), or Null
getUnusedPromptForUser(userId) ==
    IF unusedPromptsOf(userId) = {} THEN {Null}
    ELSE { Some(r) : r \in { x \in unusedPromptsOf(userId) :
                               \A y \in unusedPromptsOf(userId) : y.createdAt <= x.createdAt } }

\* generateDailyPrompt(): the provider's prompt, or one of the function's own
\* fallback prompts when the call fails; it never throws
generateDailyPrompt(promptReply) ==
    IF promptReply.ok THEN [source |-> "ai", index |-> 0]
    ELSE [source |-> "builtin", index |-> 0]

\* generatePersonalizedPrompt(userEntries): as generateDailyPrompt, which it
\* calls when its own provider call fails
generatePersonalizedPrompt(userEntries, promptReply, retryReply) ==
    IF Len(userEntries) = 0 THEN generateDailyPrompt(promptReply)
    ELSE IF promptReply.ok THEN [source |-> "personalized", index |-> 0]
    ELSE generateDailyPrompt(retryReply)

\* createAiPrompt(prompt): the row stored, id and createdAt by column default
promptRow(userId, promptText) ==
    [id |-> procs.nextPrompt, userId |-> userId, promptText |-> promptText,
     isUsed |-> FALSE, createdAt |-> now]

\* markPromptAsUsed(promptId): update ... set is_used = true where id = promptId
markPromptAsUsed(rows, promptId) ==
    { IF r.id = promptId THEN [r EXCEPT !.isUsed = TRUE] ELSE r : r \in rows }

InitDaily ==
    /\ now = StartDay * MsPerDay
    /\ entries \in { {}, {entryRow(1, parsedEntry("u1", ShortText, TRUE), now)} }
    /\ nextId = [entry |-> Cardinality(entries) + 1, insight |-> 1]
    /\ \E st \in statsResults(entries, "u1", now) :
          users = [u \in Users |-> IF u = "u1" THEN st ELSE NewUser]
    /\ insights = {}
    /\ lastOp = [op |-> "init", userId |-> "", status |-> 0, id |-> Null, calls |-> <<>>]
    /\ procs = [prompts |-> {}, nextPrompt |-> 1]

\* GET /api/ai-prompts/daily; tryThrows: the inner try block throws (a storage
\* error), and the catch block stores the curated prompt of the day
DailyPrompt(userId, promptReply, retryReply, tryThrows) ==
    \E prompt \in getUnusedPromptForUser(userId) :
        IF prompt # Null
        THEN /\ lastOp' = [op |-> "GET daily", userId |-> userId, status |-> 200,
                           id |-> Some(prompt[1].id), calls |-> <<>>]
             /\ UNCHANGED <<now, entries, users, insights, nextId, procs>>
        ELSE /\ procs.nextPrompt <= MaxPrompts
             /\ \E recentEntries \in getUserJournalEntries(userId, 5) :
                   LET promptText ==
                           IF tryThrows
                           THEN [source |-> "curated", index |-> getDailyPrompt(now)]
                           ELSE IF Len(recentEntries) > 0
                                THEN generatePersonalizedPrompt(recentEntries, promptReply,
                                                                retryReply)
                                ELSE generateDailyPrompt(promptReply)
                       calls ==
                           IF tryThrows THEN <<>>
                           ELSE IF Len(recentEntries) > 0
                                THEN IF promptReply.ok THEN <<"generatePersonalizedPrompt">>
                                     ELSE <<"generatePersonalizedPrompt", "generateDailyPrompt">>
                                ELSE <<"generateDailyPrompt">>
                   IN  /\ procs' = [prompts |-> procs.prompts \cup {promptRow(userId, promptText)},
                                    nextPrompt |-> procs.nextPrompt + 1]
                       /\ lastOp' = [op |-> "GET daily", userId |-> userId, status |-> 200,
                                     id |-> Some(procs.nextPrompt), calls |-> calls]
             /\ UNCHANGED <<now, entries, users, insights, nextId>>

\* POST /api/ai-prompts/:id/use: the id comes from the URL, the caller from
\* the session
MarkUsed(userId, promptId) ==
    /\ procs' = [procs EXCEPT !.prompts = markPromptAsUsed(@, promptId)]
    /\ lastOp' = [op |-> "POST use", userId |-> userId, status |-> 200,
                  id |-> Some(promptId), calls |-> <<>>]
    /\ UNCHANGED <<now, entries, users, insights, nextId>>

NextDaily ==
    \/ \E userId \in Users, promptReply \in PromptReplies, retryReply \in PromptReplies,
          tryThrows \in BOOLEAN :
          DailyPrompt(userId, promptReply, retryReply, tryThrows)
    \/ \E userId \in Users, promptId \in 1..MaxPrompts : MarkUsed(userId, promptId)
    \/ Tick(MaxDay)

SpecDaily == InitDaily /\ [][NextDaily]_vars

\* C22: with daily-prompt and mark-used requests handled one at a time and no
\* refresh, a daily-prompt request for a user who has an unused prompt returns
\* that prompt and creates none, and every user has at most one unused prompt
\* in every reachable state.
C22_UnusedPromptReused ==
    /\ [](\A u \in Users : Cardinality(unusedPromptsOf(u)) <= 1)
    /\ [][\A u \in Users :
              (unusedPromptsOf(u) # {} /\ lastOp'.op = "GET daily" /\ lastOp'.userId = u)
                 => /\ procs'.prompts = procs.prompts
                    /\ \E r \in unusedPromptsOf(u) : lastOp'.id = Some(r.id)]_vars

\* C22 witness: a daily-prompt request has returned the unused prompt the user
\* already had, after an earlier prompt of the user was marked used
C22_Witness ==
    /\ lastOp.op = "GET daily"
    /\ lastOp.calls = <<>>
    /\ \E r \in unusedPromptsOf(lastOp.userId) :
          /\ lastOp.id = Some(r.id)
          /\ r.createdAt < now
    /\ \E r \in promptsOf(lastOp.userId) : r.isUsed

\* C33: a mark-prompt-used request issued by one user never changes the isUsed
\* flag of a prompt that another user owns.
C33_MarkUsedOnlyOwnPrompts ==
    [][lastOp'.op = "POST use" =>
          \A r \in procs.prompts :
              r.userId # lastOp'.userId =>
                  \E q \in procs'.prompts : q.id = r.id /\ q.isUsed = r.isUsed]_vars

-----------------------------------------------------------------------------
(* extractThemes (gemini.ts, the module the routes import) on its own: one    *)
(* call on a list of entries, newest first, as the routes pass it.            *)

\* entries in a list handed to extractThemes
MaxThemeEntries == 11

\* the number of most recent entries the theme instruction is limited to
ThemeLimit == 10

\* the strings joined, sep between each two
RECURSIVE join(_, _)
join(strings, sep) ==
    IF strings = <<>> THEN <<>>
    ELSE IF Len(strings) = 1 THEN strings[1]
    ELSE strings[1] \o sep \o join(Tail(strings), sep)

\* entries.map(e => e.content)
contentsOf(list) == [i \in 1..Len(list) |-> list[i].content]

\* extractThemes without the early return for an empty list
extractThemesAlwaysAsks(list, themesReply) ==
    [calls |-> 1,
     parts |-> contentsOf(list),
     allContent |-> join(contentsOf(list), <<".", " ">>),
     threw |-> ~themesReply.ok,
     themes |-> IF themesReply.ok THEN orElse(themesReply.themes, <<>>) ELSE <<>>]

\* extractThemes(entries): the provider calls made, the text sent, and the
\* outcome (the themes returned, or the error rethrown)
extractThemes(list, themesReply) ==
    IF Len(list) = 0
    THEN [calls |-> 0, parts |-> <<>>, allContent |-> <<>>, threw |-> FALSE, themes |-> <<>>]
    ELSE [calls |-> 1,
          parts |-> contentsOf(list),
          allContent |-> join(contentsOf(list), <<".", " ">>),
          threw |-> ~themesReply.ok,
          themes |-> IF themesReply.ok THEN orElse(themesReply.themes, <<>>) ELSE <<>>]

\* a list of n entries, newest first
ThemeLists ==
    UNION { { [i \in 1..n |-> [content |-> c[i], createdAt |-> n - i]] :
                c \in [1..n -> {ShortText, TenText}] } : n \in 0..MaxThemeEntries }

InitThemes ==
    /\ now = MaxThemeEntries
    /\ entries = {}
    /\ users = [u \in Users |-> NewUser]
    /\ insights = {}
    /\ nextId = [entry |-> 1, insight |-> 1]
    /\ lastOp = [op |-> "init", userId |-> "", status |-> 0, id |-> Null, calls |-> <<>>]
    /\ procs \in { [list |-> l, out |-> Null] : l \in ThemeLists }

\* one call of extractThemes(list)
ExtractThemes(themesReply) ==
    /\ procs.out = Null
    /\ procs' = [procs EXCEPT !.out = Some(extractThemes(procs.list, themesReply))]
    /\ lastOp' = [lastOp EXCEPT !.op = "extractThemes"]
    /\ UNCHANGED <<now, entries, users, insights, nextId>>

NextThemes ==
    \E themesReply \in outcomes(Len(procs.list) > 0, ThemeReplies) : ExtractThemes(themesReply)

SpecThemes == InitThemes /\ [][NextThemes]_vars

\* C16: extractThemes called with an empty list returns the empty sequence and
\* makes no provider call.
C16_EmptyListAsksNothing ==
    (procs.out # Null /\ procs.list = <<>>)
        => /\ procs.out[1].calls = 0
           /\ ~procs.out[1].threw
           /\ procs.out[1].themes = <<>>

\* C16 witness: the call on the empty list has returned
C16_Witness ==
    /\ procs.list = <<>>
    /\ procs.out # Null
    /\ procs.out[1].calls = 0

\* C17: the text sent to the provider holds the content of at most the
\* ThemeLimit most recent entries of the list, however long the list is.
C17_AtMostTenEntriesSent ==
    (procs.out # Null /\ procs.out[1].calls > 0)
        => /\ Len(procs.out[1].parts) <= ThemeLimit
           /\ procs.out[1].allContent =
                 join(contentsOf(SubSeq(procs.list, 1, Min(Len(procs.list), ThemeLimit))),
                      <<".", " ">>)

-----------------------------------------------------------------------------
(* The submission's theme extraction: POST /api/journal-entries by a user     *)
(* who has up to MaxPrior stored entries; procs records the list the handler  *)
(* passes to extractThemes.                                                   *)

\* stored entries of the user before the submission
MaxPrior == 5

\* the limit the POST handler passes to getUserJournalEntries
RecentLimit == 5

\* lines 287-294: the new entry, then the recent entries that have a createdAt
allEntriesOf(content, recentEntries) ==
    <<[content |-> content, createdAt |-> now]>>
        \o [i \in 1..Len(recentEntries) |->
               [content |-> recentEntries[i].content,
                createdAt |-> recentEntries[i].createdAt]]

InitSubmit ==
    /\ now = StartDay * MsPerDay
    /\ \E n \in 0..MaxPrior :
          \E done \in [1..n -> BOOLEAN] :
              /\ entries = { entryRow(i, parsedEntry("u1", ShortText, done[i]), i) :
                               i \in 1..n }
              /\ nextId = [entry |-> n + 1, insight |-> 1]
    /\ \E st \in statsResults(entries, "u1", now) :
          users = [u \in Users |-> IF u = "u1" THEN st ELSE NewUser]
    /\ insights = {}
    /\ lastOp = [op |-> "init", userId |-> "", status |-> 0, id |-> Null, calls |-> <<>>]
    /\ procs = [sent |-> Null]

\* POST /api/journal-entries, with the argument of its extractThemes call
SubmitEntry(userId, content, isCompleted, sentimentReply, themesReply) ==
    /\ lastOp.op = "init"
    /\ \E recentEntries \in getUserJournalEntries(userId, RecentLimit) :
          procs' = [sent |-> IF isSubstantial(countWords(content)) /\ sentimentReply.ok
                             THEN Some(extractThemes(allEntriesOf(content, recentEntries),
                                                     themesReply).parts)
                             ELSE Null]
    /\ createJournalEntry(enrichedEntry(userId, content, isCompleted, sentimentReply,
                                        themesReply))
    /\ lastOp' = [op |-> "POST", userId |-> userId, status |-> 200,
                  id |-> Some(nextId.entry),
                  calls |-> postCalls(userId, content, sentimentReply)]
    /\ UNCHANGED <<now, insights>>

NextSubmit ==
    \E content \in PostContents, isCompleted \in BOOLEAN :
        \E sentimentReply \in outcomes(isSubstantial(countWords(content)), {HappyReply}) :
            \E themesReply \in outcomes(sentimentReply.ok, ThemeReplies) :
                SubmitEntry("u1", content, isCompleted, sentimentReply, themesReply)

SpecSubmit == InitSubmit /\ [][NextSubmit]_vars

\* C24: on entry submission, extractThemes is called over the new entry plus at
\* most 4 of the user's most recent prior completed entries: at most 5 entries.
C24_AtMostFiveEntriesSent ==
    procs.sent # Null => Len(procs.sent[1]) <= 5

-----------------------------------------------------------------------------
(* The regenerated insight row on its own: the row GET /api/insights/weekly   *)
(* creates for a list of completed entries of the week, newest first, on the  *)
(* provider path or in the catch block.                                       *)

\* completed entries in the week
MaxWeekEntries == 3

\* the mood and the sentiment score (hundredths) a stored entry may carry
MoodChoices == {Null, Some("happy"), Some("sad")}

ScoreChoices == {Null, Some(100), Some(-40), Some(-55)}

weekRow(i, n, mood, score) ==
    entryRow(i, [parsedEntry("u1", ShortText, TRUE) EXCEPT !.mood = mood,
                                                          !.sentimentScore = score],
             n - i)

\* lists of n completed entries, newest first
WeekLists ==
    UNION { { [i \in 1..n |-> weekRow(i, n, m[i], sc[i])] :
                m \in [1..n -> MoodChoices], sc \in [1..n -> ScoreChoices] } :
            n \in 1..MaxWeekEntries }

InitTrend ==
    /\ now = StartDay * MsPerDay
    /\ entries = {}
    /\ users = [u \in Users |-> NewUser]
    /\ insights = {}
    /\ nextId = [entry |-> 1, insight |-> 1]
    /\ lastOp = [op |-> "init", userId |-> "", status |-> 0, id |-> Null, calls |-> <<>>]
    /\ procs \in { [completedEntries |-> l, path |-> "", row |-> Null] : l \in WeekLists }

\* lines 699-763: the row the handler creates for completedEntries
Regenerate(themesReply, insightReply) ==
    /\ procs.row = Null
    /\ procs' = [procs EXCEPT
                    !.path = IF themesReply.ok /\ insightReply.ok THEN "provider" ELSE "catch",
                    !.row = IF themesReply.ok /\ insightReply.ok
                            THEN Some(aiInsight("u1", weekStartOf(now), procs.completedEntries,
                                                insightReply))
                            ELSE Some(fallbackInsight("u1", weekStartOf(now),
                                                      procs.completedEntries))]
    /\ lastOp' = [lastOp EXCEPT !.op = "GET weekly"]
    /\ UNCHANGED <<now, entries, users, insights, nextId>>

NextTrend ==
    \E themesReply \in outcomes(TRUE, ThemeReplies) :
        \E insightReply \in outcomes(themesReply.ok, InsightReplies) :
            Regenerate(themesReply, insightReply)

SpecTrend == InitTrend /\ [][NextTrend]_vars

\* the moods of a list with the highest count
mostFrequent(list) ==
    { m \in { moodOf(list[i]) : i \in 1..Len(list) } :
        \A i \in 1..Len(list) : moodCount(list, moodOf(list[i])) <= moodCount(list, m) }

\* where the iteration over the list first meets the mood
firstMet(list, m) == CHOOSE i \in 1..Len(list) :
                        moodOf(list[i]) = m /\ \A j \in 1..(i - 1) : moodOf(list[j]) # m

C29_AverageIsMeanOfScores ==
    procs.row # Null =>
        procs.row[1].averageSentiment =
            roundDiv(SumSeq([i \in 1..Len(procs.completedEntries) |->
                                IF procs.completedEntries[i].sentimentScore = Null THEN 0
                                ELSE procs.completedEntries[i].sentimentScore[1]]),
                     Len(procs.completedEntries))

-----------------------------------------------------------------------------
(* analyzeSentiment on its own: the value it returns for a parsed provider    *)
(* answer with a numeric score and a numeric confidence (in hundredths).      *)

\* scores are k * 50 for |k| <= MaxScoreSteps, confidences k * 25 for
\* -2 <= k <= MaxConfidenceSteps
MaxScoreSteps == 6

MaxConfidenceSteps == 6

NumericReplies ==
    { [HappyReply EXCEPT !.score = Some(s * 50), !.confidence = Some(c * 25)] :
        s \in (0 - MaxScoreSteps)..MaxScoreSteps, c \in (0 - 2)..MaxConfidenceSteps }

InitSentiment ==
    /\ now = StartDay * MsPerDay
    /\ entries = {}
    /\ users = [u \in Users |-> NewUser]
    /\ insights = {}
    /\ nextId = [entry |-> 1, insight |-> 1]
    /\ lastOp = [op |-> "init", userId |-> "", status |-> 0, id |-> Null, calls |-> <<>>]
    /\ procs \in { [reply |-> r, out |-> Null] : r \in NumericReplies }

\* one call of analyzeSentiment(content) that the provider answers with procs.reply
AnalyzeSentiment ==
    /\ procs.out = Null
    /\ procs' = [procs EXCEPT !.out = Some(sentimentResult(procs.reply))]
    /\ lastOp' = [lastOp EXCEPT !.op = "analyzeSentiment"]
    /\ UNCHANGED <<now, entries, users, insights, nextId>>

NextSentiment == AnalyzeSentiment

SpecSentiment == InitSentiment /\ [][NextSentiment]_vars

\* C30: for every numeric score s and confidence c the provider returns,
\* analyzeSentiment returns score = min(1, max(-1, s)) and
\* confidence = min(1, max(0, c)).
C30_ScoreAndConfidenceClamped ==
    procs.out # Null =>
        /\ procs.out[1].score = Min(100, Max(-100, procs.reply.score[1]))
        /\ procs.out[1].confidence = Min(100, Max(0, procs.reply.confidence[1]))

-----------------------------------------------------------------------------
(* Submissions and the labels they store: POST /api/journal-entries with      *)
(* contents of either keyword mix, the provider answering with a label of the *)
(* instruction's list or with another string, or failing.                     *)

\* a parsed answer whose label is not one the instruction lists
MixedReply == [HappyReply EXCEPT !.label = Some("mixed")]

LabelReplies == {HappyReply, MixedReply}

LabelContents == {ShortText, LongText, LongText2}

SubmitLabelled ==
    \E content \in LabelContents, isCompleted \in BOOLEAN :
        \E sentimentReply \in outcomes(isSubstantial(countWords(content)), LabelReplies) :
            \E themesReply \in outcomes(sentimentReply.ok, ThemeReplies) :
                PostEntry("u1", content, isCompleted, sentimentReply, themesReply)

NextLabel == SubmitLabelled

SpecLabel == Init /\ [][NextLabel]_vars

\* C31: in every reachable state every stored entry's sentimentLabel is unset
\* or one of positive, negative, neutral, whatever label the provider returned
\* and also when the fallback path enriched the entry.
C31_LabelInClosedSet ==
    \A e \in entries :
        e.sentimentLabel = Null \/ e.sentimentLabel[1] \in {"positive", "negative", "neutral"}

-----------------------------------------------------------------------------
(* Requests that name an entry: GET, PATCH and DELETE                         *)
(* /api/journal-entries/:id by either user, on the one stored entry of u1 or  *)
(* on an id no row has.                                                       *)

Read(U) ==
    \E userId \in U, entryId \in 1..MaxEntries : ReadEntry(userId, entryId)

NextAccess ==
    \/ Read(Users)
    \/ Patch(Users, {HappyReply}, PatchContents)
    \/ Delete(Users)

SpecAccess == InitEdit /\ [][NextAccess]_vars

-----------------------------------------------------------------------------
(* A second completed entry on a day: a history of completed entries and      *)
(* drafts, at most one of each per day, in which PATCH isCompleted: true      *)
(* turns a draft into a completed entry.                                      *)

\* stored entries of the history
MaxSameDay == 4

\* the slots of the history: slot 2d + 1 is the completed entry of day d,
\* slot 2d + 2 the draft written one tick later
SlotIds == 1..(2 * (StatsDay + 1))

slotRow(id) ==
    entryRow(id, parsedEntry(StatsUser, ShortText, (id % 2) = 1),
             ((id - 1) \div 2) * MsPerDay + (1 - (id % 2)))

\* the time of the request that wrote the newest row, which is when the
\* stored statistics were last recomputed
lastWrite(rows) ==
    IF rows = {} THEN 0
    ELSE (CHOOSE e \in rows : \A f \in rows : f.createdAt <= e.createdAt).createdAt

InitSameDay ==
    /\ now = StatsDay * MsPerDay + (MsPerDay - 1)
    /\ \E ids \in SUBSET SlotIds :
          /\ Cardinality(ids) <= MaxSameDay
          /\ entries = { slotRow(id) : id \in ids }
    /\ nextId = [entry |-> 2 * (StatsDay + 1) + 1, insight |-> 1]
    /\ \E st \in statsResults(entries, StatsUser, lastWrite(entries)) :
          users = [u \in Users |-> IF u = StatsUser THEN st ELSE NewUser]
    /\ insights = {}
    /\ lastOp = [op |-> "init", userId |-> "", status |-> 0, id |-> Null, calls |-> <<>>]
    /\ procs = <<>>

\* PATCH /api/journal-entries/:id with body {isCompleted: true}
CompleteDraft ==
    \E entryId \in SlotIds :
        /\ \E e \in entries : e.id = entryId /\ ~e.isCompleted
        /\ PatchEntry(StatsUser, entryId, Null, Some(TRUE), ProviderError)

NextSameDay == CompleteDraft

SpecSameDay == InitSameDay /\ [][NextSameDay]_vars

\* C35: several completed entries on one calendar day count as one day of a
\* streak: when a day that already has a completed entry gets a second one,
\* the recomputed currentStreak and longestStreak are the ones the same
\* recomputation gives without the second entry.
C35_SecondEntryOfDayKeepsStreaks ==
    [][\A e \in entries' \ entries :
          ( /\ lastOp'.op = "PATCH"
            /\ e.isCompleted
            /\ \E f \in entries :
                  f.id # e.id /\ f.isCompleted /\ dayOf(f.createdAt) = dayOf(e.createdAt) )
              => \E st \in statsResults(entries, StatsUser, now) :
                    /\ users'[StatsUser].currentStreak = st.currentStreak
                    /\ users'[StatsUser].longestStreak = st.longestStreak]_vars

-----------------------------------------------------------------------------
(* The stored streak while the calendar moves on: entries are submitted and   *)
(* the days pass with no request that recomputes the statistics.              *)

\* the last day of the run, which starts on day 0
LastQuietDay == 3

InitQuiet ==
    /\ now = 0
    /\ entries = {}
    /\ users = [u \in Users |-> NewUser]
    /\ insights = {}
    /\ nextId = [entry |-> 1, insight |-> 1]
    /\ lastOp = [op |-> "init", userId |-> "", status |-> 0, id |-> Null, calls |-> <<>>]
    /\ procs = <<>>

\* POST /api/journal-entries with a short entry, too short for the provider
SubmitShort ==
    \E isCompleted \in BOOLEAN :
        PostEntry(StatsUser, ShortText, isCompleted, ProviderError, ProviderError)

NextQuiet ==
    \/ SubmitShort
    \/ Tick(LastQuietDay)

SpecQuiet == InitQuiet /\ [][NextQuiet]_vars

\* C36: in every reachable state the stored currentStreak of a user is 0
\* whenever the user has no completed entry dated today or yesterday, also
\* when the day has advanced with no entry written, edited or deleted.
C36_StreakZeroWithoutRecentEntry ==
    \A u \in Users :
        (\A e \in entries :
            (e.userId = u /\ e.isCompleted)
                => ~(isToday(startOfDay(e.createdAt), now)
                     \/ isYesterday(startOfDay(e.createdAt), now)))
            => users[u].currentStreak = 0

====
